---------------------------- MODULE Spec2Model ----------------------------
(***************************************************************************)
(* Riichi Mahjong scoreboard (src/src/App.tsx): the scoring table, the     *)
(* three settlement computations (self-draw, discard-win, exhaustive       *)
(* draw), the round/dealer progression, the history ledger, the            *)
(* single-step undo/redo controller, the load/persist effects on local     *)
(* storage and the ranking of the stacks.                                  *)
(*                                                                         *)
(* Encoding of JavaScript values:                                          *)
(*   - a 4-element array is a function over 0..3 (the seat index);         *)
(*   - the history array is a sequence, newest entry first (JS index 0 is  *)
(*     TLA+ index 1);                                                      *)
(*   - a string is a sequence of one-character strings, so that parseInt   *)
(*     and trim are computed and not assumed;                              *)
(*   - the seat value null is NullSeat (-1); a null snapshot is Null;      *)
(*   - han, fu, points and the pool are integers;                          *)
(*   - honba and kyokuIndex, which the round-edit dialog can set to a      *)
(*     fraction, are held in halves: Num(n) is the number n and            *)
(*     AndAHalf(n) the number n + 0.5 (see Num below).                     *)
(***************************************************************************)
EXTENDS Integers, Sequences, FiniteSets, TLC

VARIABLES
    state,      \* the GameState held by useState (App.tsx:483)
    rendered,   \* what the closures of the last render captured of the state
    lastOp,     \* the last request made by the UI, with its inputs
    stored      \* the item under STORAGE_KEY in localStorage

vars == <<state, rendered, lastOp, stored>>

-----------------------------------------------------------------------------
(* Bounds of the exploration *)

\* Settlements are explored while the history holds fewer entries than this.
MaxHistory == 2
\* calcBasePoints is tabulated for han in 1..MaxHan and fu in 1..MaxFu.
MaxHan == 14
MaxFu == 120
\* The chain of advancing settlements is explored up to this many entries.
MaxCycle == 8
\* The round-edit dialog is explored with honba up to this number.
MaxEditHonba == 2

-----------------------------------------------------------------------------
(* Values *)

SeatIndex == 0..3
NullSeat == -1
Null == [isNull |-> TRUE]

\* The four default positional labels (East, South, West and North "wind
\* seat" in the source), two characters each here.
PLAYER_LABELS ==
    [i \in SeatIndex |->
        CASE i = 0 -> <<"E", "F">>
          [] i = 1 -> <<"S", "F">>
          [] i = 2 -> <<"W", "F">>
          [] OTHER -> <<"N", "F">>]

createDefaultNames == PLAYER_LABELS

Digits == <<"0", "1", "2", "3", "4", "5", "6", "7", "8", "9">>

IsDigit(c) == \E d \in 1..10 : Digits[d] = c

DigitValue(c) == (CHOOSE d \in 1..10 : Digits[d] = c) - 1

\* The characters String.prototype.trim removes and parseInt skips: the
\* WhiteSpace and LineTerminator code points of ECMAScript.  A character
\* that a TLA+ string cannot hold is written as the name of its code point.
WhiteSpaceCharacters ==
    {" ",       \* U+0020 space
     "\t",      \* U+0009 tab
     "\n",      \* U+000A line feed
     "\r",      \* U+000D carriage return
     "\f",      \* U+000C form feed
     "",       \* U+000B vertical tab
     " ",       \* U+00A0 no-break space
     " ",       \* U+1680 ogham space mark
     "﻿",       \* U+FEFF zero width no-break space
     "U+2000", "U+2001", "U+2002", "U+2003", "U+2004", "U+2005", "U+2006",
     "U+2007", "U+2008", "U+2009", "U+200A",    \* the spaces of U+2000-200A
     "U+2028",  \* line separator
     "U+2029",  \* paragraph separator
     "U+202F",  \* narrow no-break space
     "U+205F",  \* medium mathematical space
     "U+3000"}  \* ideographic space

IsWhitespace(c) == c \in WhiteSpaceCharacters

\* The string from its first character that is no white space.
TrimStart(s) ==
    LET first == CHOOSE k \in 1..(Len(s) + 1) :
                    /\ k = Len(s) + 1 \/ ~IsWhitespace(s[k])
                    /\ \A j \in 1..(k - 1) : IsWhitespace(s[j])
    IN  SubSeq(s, first, Len(s))

\* The string up to its last character that is no white space.
TrimEnd(s) ==
    LET last == CHOOSE k \in 0..Len(s) :
                    /\ k = 0 \/ ~IsWhitespace(s[k])
                    /\ \A j \in (k + 1)..Len(s) : IsWhitespace(s[j])
    IN  SubSeq(s, 1, last)

\* String.prototype.trim
Trim(s) == TrimEnd(TrimStart(s))

\* The longest prefix of decimal digits of s.
DigitPrefix(s) ==
    LET stop == CHOOSE k \in 1..(Len(s) + 1) :
                    /\ k = Len(s) + 1 \/ ~IsDigit(s[k])
                    /\ \A j \in 1..(k - 1) : IsDigit(s[j])
    IN  SubSeq(s, 1, stop - 1)

\* The digits without their leading zeros.
Significant(digits) ==
    LET first == CHOOSE k \in 1..(Len(digits) + 1) :
                    /\ k = Len(digits) + 1 \/ digits[k] # "0"
                    /\ \A j \in 1..(k - 1) : digits[j] = "0"
    IN  SubSeq(digits, first, Len(digits))

\* The digits of 2^1024 - 2^970, halfway between the largest double
\* (Number.MAX_VALUE) and 2^1024: a decimal numeral of this value or more
\* rounds to Infinity.
OverflowDigits ==
    <<
      1, 7, 9, 7, 6, 9, 3, 1, 3, 4, 8, 6, 2, 3, 1, 5, 8, 0, 7, 9, 3, 7, 2, 8, 9,
      7, 1, 4, 0, 5, 3, 0, 3, 4, 1, 5, 0, 7, 9, 9, 3, 4, 1, 3, 2, 7, 1, 0, 0, 3,
      7, 8, 2, 6, 9, 3, 6, 1, 7, 3, 7, 7, 8, 9, 8, 0, 4, 4, 4, 9, 6, 8, 2, 9, 2,
      7, 6, 4, 7, 5, 0, 9, 4, 6, 6, 4, 9, 0, 1, 7, 9, 7, 7, 5, 8, 7, 2, 0, 7, 0,
      9, 6, 3, 3, 0, 2, 8, 6, 4, 1, 6, 6, 9, 2, 8, 8, 7, 9, 1, 0, 9, 4, 6, 5, 5,
      5, 5, 4, 7, 8, 5, 1, 9, 4, 0, 4, 0, 2, 6, 3, 0, 6, 5, 7, 4, 8, 8, 6, 7, 1,
      5, 0, 5, 8, 2, 0, 6, 8, 1, 9, 0, 8, 9, 0, 2, 0, 0, 0, 7, 0, 8, 3, 8, 3, 6,
      7, 6, 2, 7, 3, 8, 5, 4, 8, 4, 5, 8, 1, 7, 7, 1, 1, 5, 3, 1, 7, 6, 4, 4, 7,
      5, 7, 3, 0, 2, 7, 0, 0, 6, 9, 8, 5, 5, 5, 7, 1, 3, 6, 6, 9, 5, 9, 6, 2, 2,
      8, 4, 2, 9, 1, 4, 8, 1, 9, 8, 6, 0, 8, 3, 4, 9, 3, 6, 4, 7, 5, 2, 9, 2, 7,
      1, 9, 0, 7, 4, 1, 6, 8, 4, 4, 4, 3, 6, 5, 5, 1, 0, 7, 0, 4, 3, 4, 2, 7, 1,
      1, 5, 5, 9, 6, 9, 9, 5, 0, 8, 0, 9, 3, 0, 4, 2, 8, 8, 0, 1, 7, 7, 9, 0, 4,
      1, 7, 4, 4, 9, 7, 7, 9, 2>>

\* Whether the numeral (no leading zero) exceeds every finite double.
IsOverflow(sig) ==
    \/ Len(sig) > Len(OverflowDigits)
    \/ /\ Len(sig) = Len(OverflowDigits)
       /\ \A k \in 1..Len(sig) :
             DigitValue(sig[k]) < OverflowDigits[k] =>
                \E j \in 1..(k - 1) : DigitValue(sig[j]) > OverflowDigits[j]

RECURSIVE DigitsValue(_, _)
\* The number the digits denote, read from the left.
DigitsValue(digits, acc) ==
    IF digits = <<>> THEN acc
    ELSE DigitsValue(Tail(digits), 10 * acc + DigitValue(Head(digits)))

\* parseInt(str, 10): leading whitespace, an optional sign, then digits up to
\* the first other character; NaN when no digit was read, Infinity (negative
\* after a minus sign) when the digits exceed every finite double.  value is
\* the number when it is finite (an integer here: a numeral beyond 2^53,
\* which the code rounds to a double, is outside the integers explored).
parseInt(str) ==
    LET s == TrimStart(str)
        neg == s # <<>> /\ Head(s) = "-"
        body == IF s # <<>> /\ Head(s) \in {"-", "+"} THEN Tail(s) ELSE s
        digits == DigitPrefix(body)
        sig == Significant(digits)
        nan == digits = <<>>
        inf == ~nan /\ IsOverflow(sig)
        magnitude == IF nan \/ inf THEN 0 ELSE DigitsValue(sig, 0)
    IN  [isNaN |-> nan,
         isInfinite |-> inf,
         negative |-> ~nan /\ neg,
         value |-> IF neg THEN 0 - magnitude ELSE magnitude]

\* parseInt(input || "0", 10)
parseInput(input) == parseInt(IF input = <<>> THEN <<"0">> ELSE input)

\* Number.isFinite: neither NaN nor an infinity.
NumberIsFinite(n) == ~n.isNaN /\ ~n.isInfinite

\* The JavaScript remainder a % b (b > 0): the sign follows the dividend.
\* honba and kyokuIndex are JavaScript numbers that are integers in play and
\* that the number fields of the round-edit dialog can set to any fraction.
\* The model holds the two of them, wherever they appear (the state, the
\* snapshots, the dialog, the round label, the stored document), in halves:
\* the value 2 * x stands for the number x.  Sums, differences, comparisons
\* and remainders of two such values are those of the numbers; the product
\* with an integer is the product in halves.  The numbers explored are the
\* multiples of 0.5, which double arithmetic adds, multiplies by 100 and by
\* 300 and reduces modulo 8 without rounding.
\* The integer n.
Num(n) == 2 * n
\* The number n + 0.5.
AndAHalf(n) == 2 * n + 1
\* The integer that a number held in halves is (honba * 100, honba * 300).
Whole(x) == x \div 2

JsRem(a, b) == IF a >= 0 THEN a % b ELSE 0 - ((0 - a) % b)

\* Mutant of sanitizeNames: the value is stored as typed, not trimmed.
sanitizeNamesUntrimmed(input) ==
    IF ~(input.isArray /\ Len(input.items) = 4)
    THEN createDefaultNames
    ELSE [index \in SeatIndex |->
            LET value == input.items[index + 1] IN
            IF ~value.isString
            THEN PLAYER_LABELS[index]
            ELSE IF Len(Trim(value.chars)) > 0
                 THEN value.chars
                 ELSE PLAYER_LABELS[index]]

sanitizeNames(input) ==
    IF ~(input.isArray /\ Len(input.items) = 4)
    THEN createDefaultNames
    ELSE [index \in SeatIndex |->
            LET value == input.items[index + 1] IN
            IF ~value.isString
            THEN PLAYER_LABELS[index]
            ELSE LET trimmed == Trim(value.chars) IN
                 IF Len(trimmed) > 0 THEN trimmed ELSE PLAYER_LABELS[index]]

createInitialGameState ==
    [points |-> [i \in SeatIndex |-> 25000],
     kyotaku |-> 0,
     honba |-> Num(0),
     kyokuIndex |-> Num(0),
     dealerIndex |-> 0,
     history |-> <<>>,
     names |-> createDefaultNames,
     lastSettlementBefore |-> Null,
     lastSettlementAfter |-> Null,
     lastSettlementMeta |-> Null,
     isInUndo |-> FALSE]

createCoreSnapshotFromState(source) ==
    [points |-> source.points,
     kyotaku |-> source.kyotaku,
     honba |-> source.honba,
     kyokuIndex |-> source.kyokuIndex,
     dealerIndex |-> source.dealerIndex,
     history |-> source.history,
     names |-> source.names]

\* The round label `${wind}${number}局${honba}本场` is kept as its three parts.
getRoundInfo(kyokuIndex, honba) ==
    LET wind == IF kyokuIndex < Num(4) THEN "East" ELSE "South"
        number == IF kyokuIndex < Num(4) THEN kyokuIndex + Num(1)
                  ELSE kyokuIndex - Num(3)
    IN  [wind |-> wind, number |-> number,
         label |-> <<wind, number, honba>>]

\* Mutant of roundUpToHundred: Math.round in place of Math.ceil.
roundToNearestHundred(value) == ((value + 50) \div 100) * 100

\* Math.ceil(value / 100) * 100
roundUpToHundred(value) == ((value + 99) \div 100) * 100

RECURSIVE Pow2(_)
Pow2(n) == IF n <= 0 THEN 1 ELSE 2 * Pow2(n - 1)

\* Mutant of calcBasePoints: the kiriage-mangan test is missing.
calcBasePointsNoKiriage(han, fu) ==
    IF han >= 13 THEN 8000
    ELSE IF han >= 11 THEN 6000
    ELSE IF han >= 8 THEN 4000
    ELSE IF han >= 6 THEN 3000
    ELSE IF han >= 5 THEN 2000
    ELSE LET raw == fu * Pow2(han + 2) IN
         IF raw > 2000 THEN 2000 ELSE raw

calcBasePoints(han, fu) ==
    IF han >= 13 THEN 8000
    ELSE IF han >= 11 THEN 6000
    ELSE IF han >= 8 THEN 4000
    ELSE IF han >= 6 THEN 3000
    ELSE IF han >= 5 THEN 2000
    ELSE LET raw == fu * Pow2(han + 2) IN
         IF (han = 4 /\ fu = 30) \/ (han = 3 /\ fu = 60) THEN 2000
         ELSE IF raw > 2000 THEN 2000
         ELSE raw

ensureSeatIndex(value) == JsRem(value, 4)


-----------------------------------------------------------------------------
(* Settlement previews (pure): App.tsx:285-476 *)

ZeroDeltas == [i \in SeatIndex |-> 0]

\* The seats flagged riichi, in seat order (riichiIndices).
RiichiIndices(riichiFlags) ==
    SelectSeq(<<0, 1, 2, 3>>, LAMBDA i : riichiFlags[i])

\* deltas after the riichi forEach: 1000 leaves each declarer's stack.
RiichiDeltas(riichiFlags) ==
    [i \in SeatIndex |-> IF riichiFlags[i] THEN ZeroDeltas[i] - 1000 ELSE ZeroDeltas[i]]

RECURSIVE PreviewTsumoLoop(_, _, _, _, _)
\* state.points.forEach of computeTsumoPreview, from seat idx on;
\* acc = [deltas, totalBaseFromOthers, totalHonbaFromOthers].
PreviewTsumoLoop(idx, acc, st, winner, basePoints) ==
    IF idx > 3 THEN acc
    ELSE IF idx = winner THEN PreviewTsumoLoop(idx + 1, acc, st, winner, basePoints)
    ELSE
        LET winnerIsDealer == winner = st.dealerIndex
            isDealer == idx = st.dealerIndex
            rawBase == IF winnerIsDealer
                       THEN 2 * basePoints
                       ELSE basePoints * (IF isDealer THEN 2 ELSE 1)
            basePay == roundUpToHundred(rawBase)
            honbaPay == Whole(st.honba * 100)
            payment == basePay + honbaPay
        IN  PreviewTsumoLoop(idx + 1,
                [deltas |-> [acc.deltas EXCEPT ![idx] = @ - payment],
                 totalBaseFromOthers |-> acc.totalBaseFromOthers + basePay,
                 totalHonbaFromOthers |-> acc.totalHonbaFromOthers + honbaPay],
                st, winner, basePoints)

computeTsumoPreview(st, winner, hanInput, fuInput, riichiFlags) ==
    IF winner = NullSeat THEN Null
    ELSE
        LET han == parseInput(hanInput)
            fu == parseInput(fuInput)
        IN
        IF ~NumberIsFinite(han) \/ han.value <= 0
           \/ ~NumberIsFinite(fu) \/ fu.value <= 0
        THEN Null
        ELSE
            LET basePoints == calcBasePoints(han.value, fu.value)
                riichiCount == Len(RiichiIndices(riichiFlags))
                riichiIncome == riichiCount * 1000
                kyotakuPoints == st.kyotaku * 1000
                acc == PreviewTsumoLoop(0,
                          [deltas |-> RiichiDeltas(riichiFlags),
                           totalBaseFromOthers |-> 0,
                           totalHonbaFromOthers |-> 0],
                          st, winner, basePoints)
                d1 == [acc.deltas EXCEPT ![winner] =
                          @ + acc.totalBaseFromOthers + acc.totalHonbaFromOthers]
                d2 == [d1 EXCEPT ![winner] = @ + kyotakuPoints + riichiIncome]
            IN  [deltas |-> d2,
                 winnerIndex |-> winner,
                 kyotakuBefore |-> st.kyotaku,
                 kyotakuAfter |-> 0,
                 kyotakuIncome |-> kyotakuPoints,
                 riichiIncome |-> riichiIncome]

\* Mutant of computeRonPreview: winner === loser is not tested.
computeRonPreviewSameSeat(st, winner, loser, hanInput, fuInput, riichiFlags) ==
    IF winner = NullSeat \/ loser = NullSeat THEN Null
    ELSE
        LET han == parseInput(hanInput)
            fu == parseInput(fuInput)
        IN
        IF ~NumberIsFinite(han) \/ han.value <= 0
           \/ ~NumberIsFinite(fu) \/ fu.value <= 0
        THEN Null
        ELSE
            LET basePoints == calcBasePoints(han.value, fu.value)
                riichiIncome == Len(RiichiIndices(riichiFlags)) * 1000
                kyotakuPoints == st.kyotaku * 1000
                multiplier == IF winner = st.dealerIndex THEN 6 ELSE 4
                payment == roundUpToHundred(multiplier * basePoints)
                              + Whole(st.honba * 300)
                d0 == RiichiDeltas(riichiFlags)
                d1 == [d0 EXCEPT ![loser] = @ - payment]
                d2 == [d1 EXCEPT ![winner] = @ + payment + kyotakuPoints + riichiIncome]
            IN  [deltas |-> d2,
                 winnerIndex |-> winner,
                 kyotakuBefore |-> st.kyotaku,
                 kyotakuAfter |-> 0,
                 kyotakuIncome |-> kyotakuPoints,
                 riichiIncome |-> riichiIncome]

computeRonPreview(st, winner, loser, hanInput, fuInput, riichiFlags) ==
    IF winner = NullSeat \/ loser = NullSeat \/ winner = loser THEN Null
    ELSE
        LET han == parseInput(hanInput)
            fu == parseInput(fuInput)
        IN
        IF ~NumberIsFinite(han) \/ han.value <= 0
           \/ ~NumberIsFinite(fu) \/ fu.value <= 0
        THEN Null
        ELSE
            LET basePoints == calcBasePoints(han.value, fu.value)
                riichiCount == Len(RiichiIndices(riichiFlags))
                riichiIncome == riichiCount * 1000
                kyotakuPoints == st.kyotaku * 1000
                winnerIsDealer == winner = st.dealerIndex
                multiplier == IF winnerIsDealer THEN 6 ELSE 4
                rawBase == multiplier * basePoints
                basePay == roundUpToHundred(rawBase)
                honbaPay == Whole(st.honba * 300)
                payment == basePay + honbaPay
                d0 == RiichiDeltas(riichiFlags)
                d1 == [d0 EXCEPT ![loser] = @ - payment]
                d2 == [d1 EXCEPT ![winner] = @ + payment + kyotakuPoints + riichiIncome]
            IN  [deltas |-> d2,
                 winnerIndex |-> winner,
                 kyotakuBefore |-> st.kyotaku,
                 kyotakuAfter |-> 0,
                 kyotakuIncome |-> kyotakuPoints,
                 riichiIncome |-> riichiIncome]

\* tenpaiFlags.filter(Boolean).length
TenpaiCount(tenpaiFlags) == Cardinality({i \in SeatIndex : tenpaiFlags[i]})

\* Array.prototype.findIndex over a 4-element boolean array (-1: none).
FindIndex(flags, wanted) ==
    IF \E i \in SeatIndex : flags[i] = wanted
    THEN CHOOSE i \in SeatIndex :
            flags[i] = wanted /\ \A j \in SeatIndex : j < i => flags[j] # wanted
    ELSE -1

RECURSIVE PreviewDrawOneLoop(_, _, _)
\* tenpaiCount === 1: every other seat pays 1000 to tenpaiIndex.
PreviewDrawOneLoop(idx, deltas, tenpaiIndex) ==
    IF idx > 3 THEN deltas
    ELSE IF idx = tenpaiIndex THEN PreviewDrawOneLoop(idx + 1, deltas, tenpaiIndex)
    ELSE PreviewDrawOneLoop(idx + 1,
            [[deltas EXCEPT ![idx] = @ - 1000] EXCEPT ![tenpaiIndex] = @ + 1000],
            tenpaiIndex)

RECURSIVE PreviewDrawThreeLoop(_, _, _)
\* tenpaiCount === 3: notIndex pays 1000 to every other seat.
PreviewDrawThreeLoop(idx, deltas, notIndex) ==
    IF idx > 3 THEN deltas
    ELSE IF idx = notIndex THEN PreviewDrawThreeLoop(idx + 1, deltas, notIndex)
    ELSE PreviewDrawThreeLoop(idx + 1,
            [[deltas EXCEPT ![notIndex] = @ - 1000] EXCEPT ![idx] = @ + 1000],
            notIndex)

computeDrawPreview(st, tenpaiFlags, riichiFlags) ==
    LET d0 == RiichiDeltas(riichiFlags)
        riichiCount == Len(RiichiIndices(riichiFlags))
        riichiIncome == riichiCount * 1000
        tenpaiCount == TenpaiCount(tenpaiFlags)
        d1 == IF tenpaiCount = 1
              THEN PreviewDrawOneLoop(0, d0, FindIndex(tenpaiFlags, TRUE))
              ELSE IF tenpaiCount = 2
              THEN [i \in SeatIndex |->
                      IF tenpaiFlags[i] THEN d0[i] + 1500 ELSE d0[i] - 1500]
              ELSE IF tenpaiCount = 3
              THEN PreviewDrawThreeLoop(0, d0, FindIndex(tenpaiFlags, FALSE))
              ELSE d0
        newKyotaku == st.kyotaku + riichiCount
    IN  [deltas |-> d1,
         winnerIndex |-> NullSeat,
         kyotakuBefore |-> st.kyotaku,
         kyotakuAfter |-> newKyotaku,
         kyotakuIncome |-> 0,
         riichiIncome |-> riichiIncome]

-----------------------------------------------------------------------------
(* The component's derived values and handlers: App.tsx:678-1180 *)

\* The state's four undo fields hold what the program puts there (Null or
\* the record of an object; TRUE or FALSE) or what the load effect took from
\* a stored document: any other JavaScript value, kept as the record tagged
\* with its type (see "Local storage" below).
IsJsonValue(x) ==
    /\ "type" \in DOMAIN x
    /\ x.type \in {"number", "string", "boolean", "array", "object", "null",
                   "undefined"}

\* JavaScript truthiness of a tagged value (parsed && ...).
Truthy(v) ==
    CASE v.type = "number" -> v.num # 0
      [] v.type = "string" -> v.chars # <<>>
      [] v.type = "boolean" -> v.bool
      [] v.type \in {"null", "undefined"} -> FALSE
      [] OTHER -> TRUE

\* Truthiness of a snapshot field (!prev.lastSettlementBefore): null is
\* falsy, an object truthy, any other value as JavaScript has it.
TruthyObject(x) ==
    IF x = Null THEN FALSE
    ELSE IF IsJsonValue(x) THEN Truthy(x)
    ELSE TRUE

\* Whether the value is a boolean and not a tagged record (the printed form
\* tells the two apart where an equality cannot).
IsBoolean(x) == ToString(x) \in {"TRUE", "FALSE"}

\* Truthiness of the undone flag (!prev.isInUndo).
TruthyFlag(x) == IF IsBoolean(x) THEN x ELSE Truthy(x)

hasLastSettlement(st) ==
    TruthyObject(st.lastSettlementBefore)
    /\ TruthyObject(st.lastSettlementAfter)
    /\ TruthyObject(st.lastSettlementMeta)

canUndo(st) == hasLastSettlement(st) /\ ~TruthyFlag(st.isInUndo)

\* canRedo is read as a condition only (disabled={!canRedo}).
canRedo(st) == hasLastSettlement(st) /\ TruthyFlag(st.isInUndo)

\* buildHistoryEntry reads the component's `state` (the closure of the last
\* render, here view), not the updater's prev.  The id keeps its
\* state.history.length part; description and timestamps are left out.
buildHistoryEntry(view, type, riichiCount, riichiPlayers, deltas) ==
    [id |-> view.historyLength,
     type |-> type,
     roundLabel |-> getRoundInfo(view.kyokuIndex, view.honba).label,
     dealerLabel |-> view.names[view.dealerIndex],
     riichiCount |-> riichiCount,
     playerNames |-> view.names,
     riichiPlayers |-> riichiPlayers,
     deltas |-> deltas]

\* Mutant of applyDeltas: a stack never goes below zero.
applyDeltasClamped(points, deltas) ==
    [idx \in SeatIndex |->
        IF points[idx] + deltas[idx] < 0 THEN 0 ELSE points[idx] + deltas[idx]]

applyDeltas(points, deltas) == [idx \in SeatIndex |-> points[idx] + deltas[idx]]

\* riichiIndices.map((i) => prev.names[i] ?? PLAYER_LABELS[i])
RiichiPlayers(prev, riichiFlags) ==
    LET idx == RiichiIndices(riichiFlags)
    IN  [k \in 1..Len(idx) |-> prev.names[idx[k]]]

RECURSIVE ConfirmTsumoLoopRoundsOnce(_, _, _, _, _)
\* Mutant of ConfirmTsumoLoop: the base is rounded up once and then doubled.
ConfirmTsumoLoopRoundsOnce(idx, acc, prev, winner, basePoints) ==
    IF idx > 3 THEN acc
    ELSE IF idx = winner
    THEN ConfirmTsumoLoopRoundsOnce(idx + 1, acc, prev, winner, basePoints)
    ELSE
        LET winnerIsDealer == winner = prev.dealerIndex
            isDealer == idx = prev.dealerIndex
            basePay == roundUpToHundred(basePoints)
                          * (IF winnerIsDealer \/ isDealer THEN 2 ELSE 1)
            honbaPay == Whole(prev.honba * 100)
            payment == basePay + honbaPay
        IN  ConfirmTsumoLoopRoundsOnce(idx + 1,
                [deltas |-> [acc.deltas EXCEPT ![idx] = @ - payment],
                 totalBaseFromOthers |-> acc.totalBaseFromOthers + basePay,
                 totalHonbaFromOthers |-> acc.totalHonbaFromOthers + honbaPay],
                prev, winner, basePoints)

RECURSIVE ConfirmTsumoLoop(_, _, _, _, _)
\* prev.points.forEach of handleTsumoConfirm, from seat idx on.
ConfirmTsumoLoop(idx, acc, prev, winner, basePoints) ==
    IF idx > 3 THEN acc
    ELSE IF idx = winner THEN ConfirmTsumoLoop(idx + 1, acc, prev, winner, basePoints)
    ELSE
        LET winnerIsDealer == winner = prev.dealerIndex
            isDealer == idx = prev.dealerIndex
            rawBase == IF winnerIsDealer
                       THEN 2 * basePoints
                       ELSE basePoints * (IF isDealer THEN 2 ELSE 1)
            basePay == roundUpToHundred(rawBase)
            honbaPay == Whole(prev.honba * 100)
            payment == basePay + honbaPay
        IN  ConfirmTsumoLoop(idx + 1,
                [deltas |-> [acc.deltas EXCEPT ![idx] = @ - payment],
                 totalBaseFromOthers |-> acc.totalBaseFromOthers + basePay,
                 totalHonbaFromOthers |-> acc.totalHonbaFromOthers + honbaPay],
                prev, winner, basePoints)

\* Mutant of TsumoDeltas: a winner who declared riichi does not get the
\* own stick back (the riichi income counts the other declarers only).
TsumoDeltasOthersSticks(prev, winner, han, fu, tsumoRiichi) ==
    LET basePoints == calcBasePoints(han, fu)
        riichiIncome ==
            Len(RiichiIndices([tsumoRiichi EXCEPT ![winner] = FALSE])) * 1000
        kyotakuPoints == prev.kyotaku * 1000
        acc == ConfirmTsumoLoop(0,
                  [deltas |-> RiichiDeltas(tsumoRiichi),
                   totalBaseFromOthers |-> 0,
                   totalHonbaFromOthers |-> 0],
                  prev, winner, basePoints)
        d1 == [acc.deltas EXCEPT ![winner] =
                  @ + acc.totalBaseFromOthers + acc.totalHonbaFromOthers]
    IN  [d1 EXCEPT ![winner] = @ + kyotakuPoints + riichiIncome]

\* deltas of handleTsumoConfirm's updater (han, fu: the parsed numbers).
TsumoDeltas(prev, winner, han, fu, tsumoRiichi) ==
    LET basePoints == calcBasePoints(han, fu)
        riichiIncome == Len(RiichiIndices(tsumoRiichi)) * 1000
        kyotakuPoints == prev.kyotaku * 1000
        acc == ConfirmTsumoLoop(0,
                  [deltas |-> RiichiDeltas(tsumoRiichi),
                   totalBaseFromOthers |-> 0,
                   totalHonbaFromOthers |-> 0],
                  prev, winner, basePoints)
        d1 == [acc.deltas EXCEPT ![winner] =
                  @ + acc.totalBaseFromOthers + acc.totalHonbaFromOthers]
    IN  [d1 EXCEPT ![winner] = @ + kyotakuPoints + riichiIncome]

\* Mutant of TsumoNextRound: the round index is advanced without the wrap.
TsumoNextRoundNoWrap(prev, winner) ==
    IF winner = prev.dealerIndex
    THEN [dealerIndex |-> prev.dealerIndex,
          honba |-> prev.honba + Num(1),
          kyokuIndex |-> prev.kyokuIndex]
    ELSE [dealerIndex |-> ensureSeatIndex(prev.dealerIndex + 1),
          honba |-> Num(0),
          kyokuIndex |-> prev.kyokuIndex + Num(1)]

\* Mutant of TsumoNextRound: the honba is reset on a dealer win too.
TsumoNextRoundResetsHonba(prev, winner) ==
    IF winner = prev.dealerIndex
    THEN [dealerIndex |-> prev.dealerIndex,
          honba |-> Num(0),
          kyokuIndex |-> prev.kyokuIndex]
    ELSE [dealerIndex |-> ensureSeatIndex(prev.dealerIndex + 1),
          honba |-> Num(0),
          kyokuIndex |-> JsRem(prev.kyokuIndex + Num(1), Num(8))]

\* Mutant of TsumoNextRound: the dealer passes to the winner.
TsumoNextRoundDealerToWinner(prev, winner) ==
    IF winner # prev.dealerIndex
    THEN [dealerIndex |-> winner,
          honba |-> Num(0),
          kyokuIndex |-> JsRem(prev.kyokuIndex + Num(1), Num(8))]
    ELSE [dealerIndex |-> prev.dealerIndex,
          honba |-> prev.honba + Num(1),
          kyokuIndex |-> prev.kyokuIndex]

\* Dealer retention or rotation after a win (tsumo: 903-915, ron: 1024-1035).
TsumoNextRound(prev, winner) ==
    IF winner = prev.dealerIndex
    THEN [dealerIndex |-> prev.dealerIndex,
          honba |-> prev.honba + Num(1),
          kyokuIndex |-> prev.kyokuIndex]
    ELSE [dealerIndex |-> ensureSeatIndex(prev.dealerIndex + 1),
          honba |-> Num(0),
          kyokuIndex |-> JsRem(prev.kyokuIndex + Num(1), Num(8))]

\* Mutant of Committed: a pending before-snapshot is kept (the pair is only
\* installed when there is none).
CommittedKeepsFirstPair(prev, afterSnapshot, meta) ==
    [points |-> afterSnapshot.points,
     kyotaku |-> afterSnapshot.kyotaku,
     honba |-> afterSnapshot.honba,
     kyokuIndex |-> afterSnapshot.kyokuIndex,
     dealerIndex |-> afterSnapshot.dealerIndex,
     history |-> afterSnapshot.history,
     names |-> afterSnapshot.names,
     lastSettlementBefore |->
        IF prev.lastSettlementBefore # Null
        THEN prev.lastSettlementBefore
        ELSE createCoreSnapshotFromState(prev),
     lastSettlementAfter |-> afterSnapshot,
     lastSettlementMeta |-> meta,
     isInUndo |-> FALSE]

\* Mutant of Committed: the undone flag is left as it was.
CommittedStaysUndone(prev, afterSnapshot, meta) ==
    [points |-> afterSnapshot.points,
     kyotaku |-> afterSnapshot.kyotaku,
     honba |-> afterSnapshot.honba,
     kyokuIndex |-> afterSnapshot.kyokuIndex,
     dealerIndex |-> afterSnapshot.dealerIndex,
     history |-> afterSnapshot.history,
     names |-> afterSnapshot.names,
     lastSettlementBefore |-> createCoreSnapshotFromState(prev),
     lastSettlementAfter |-> afterSnapshot,
     lastSettlementMeta |-> meta,
     isInUndo |-> prev.isInUndo]

\* The state the updater of a confirmation returns: {...prev, ...afterSnapshot,
\* lastSettlementBefore, lastSettlementAfter, lastSettlementMeta, isInUndo}.
Committed(prev, afterSnapshot, meta) ==
    [points |-> afterSnapshot.points,
     kyotaku |-> afterSnapshot.kyotaku,
     honba |-> afterSnapshot.honba,
     kyokuIndex |-> afterSnapshot.kyokuIndex,
     dealerIndex |-> afterSnapshot.dealerIndex,
     history |-> afterSnapshot.history,
     names |-> afterSnapshot.names,
     lastSettlementBefore |-> createCoreSnapshotFromState(prev),
     lastSettlementAfter |-> afterSnapshot,
     lastSettlementMeta |-> meta,
     isInUndo |-> FALSE]

\* Mutant of TsumoUpdater: the entry is put at the end of the history.
TsumoUpdaterAppends(prev, view, winner, han, fu, tsumoRiichi) ==
    LET deltas == TsumoDeltas(prev, winner, han, fu, tsumoRiichi)
        entry == buildHistoryEntry(view, "tsumo",
                    Len(RiichiIndices(tsumoRiichi)),
                    RiichiPlayers(prev, tsumoRiichi), deltas)
        next == TsumoNextRound(prev, winner)
        afterSnapshot ==
            [points |-> applyDeltas(prev.points, deltas),
             kyotaku |-> 0,
             honba |-> next.honba,
             kyokuIndex |-> next.kyokuIndex,
             dealerIndex |-> next.dealerIndex,
             history |-> prev.history \o <<entry>>,
             names |-> prev.names]
        meta == [type |-> "tsumo",
                 summary |-> <<prev.names[winner], entry.roundLabel>>]
    IN  Committed(prev, afterSnapshot, meta)

TsumoUpdater(prev, view, winner, han, fu, tsumoRiichi) ==
    LET deltas == TsumoDeltas(prev, winner, han, fu, tsumoRiichi)
        newPoints == applyDeltas(prev.points, deltas)
        entry == buildHistoryEntry(view, "tsumo",
                    Len(RiichiIndices(tsumoRiichi)),
                    RiichiPlayers(prev, tsumoRiichi), deltas)
        next == TsumoNextRound(prev, winner)
        afterSnapshot ==
            [points |-> newPoints,
             kyotaku |-> 0,
             honba |-> next.honba,
             kyokuIndex |-> next.kyokuIndex,
             dealerIndex |-> next.dealerIndex,
             history |-> <<entry>> \o prev.history,
             names |-> prev.names]
        meta == [type |-> "tsumo",
                 summary |-> <<prev.names[winner], entry.roundLabel>>]
    IN  Committed(prev, afterSnapshot, meta)

\* Mutant of RonDeltas: the honba bonus of a self-draw payer (100 a counter).
RonDeltasHonbaHundred(prev, winner, loser, han, fu, ronRiichi) ==
    LET basePoints == calcBasePoints(han, fu)
        riichiIncome == Len(RiichiIndices(ronRiichi)) * 1000
        kyotakuPoints == prev.kyotaku * 1000
        multiplier == IF winner = prev.dealerIndex THEN 6 ELSE 4
        payment == roundUpToHundred(multiplier * basePoints) + Whole(prev.honba * 100)
        d0 == RiichiDeltas(ronRiichi)
        d1 == [d0 EXCEPT ![loser] = @ - payment]
    IN  [d1 EXCEPT ![winner] = @ + payment + kyotakuPoints + riichiIncome]

\* Mutant of RonDeltas: the winner is not paid the pool (which is emptied).
RonDeltasForgetsPool(prev, winner, loser, han, fu, ronRiichi) ==
    LET basePoints == calcBasePoints(han, fu)
        riichiIncome == Len(RiichiIndices(ronRiichi)) * 1000
        multiplier == IF winner = prev.dealerIndex THEN 6 ELSE 4
        payment == roundUpToHundred(multiplier * basePoints) + Whole(prev.honba * 300)
        d0 == RiichiDeltas(ronRiichi)
        d1 == [d0 EXCEPT ![loser] = @ - payment]
    IN  [d1 EXCEPT ![winner] = @ + payment + riichiIncome]

\* deltas of handleRonConfirm's updater.
RonDeltas(prev, winner, loser, han, fu, ronRiichi) ==
    LET basePoints == calcBasePoints(han, fu)
        riichiIncome == Len(RiichiIndices(ronRiichi)) * 1000
        kyotakuPoints == prev.kyotaku * 1000
        winnerIsDealer == winner = prev.dealerIndex
        multiplier == IF winnerIsDealer THEN 6 ELSE 4
        rawBase == multiplier * basePoints
        basePay == roundUpToHundred(rawBase)
        honbaPay == Whole(prev.honba * 300)
        payment == basePay + honbaPay
        d0 == RiichiDeltas(ronRiichi)
        d1 == [d0 EXCEPT ![loser] = @ - payment]
    IN  [d1 EXCEPT ![winner] = @ + payment + kyotakuPoints + riichiIncome]

\* Mutant of RonNextRound: the round index is not wrapped.
RonNextRoundNoWrap(prev, winner) ==
    IF winner = prev.dealerIndex
    THEN [dealerIndex |-> prev.dealerIndex,
          honba |-> prev.honba + Num(1),
          kyokuIndex |-> prev.kyokuIndex]
    ELSE [dealerIndex |-> ensureSeatIndex(prev.dealerIndex + 1),
          honba |-> Num(0),
          kyokuIndex |-> prev.kyokuIndex + Num(1)]

RonNextRound(prev, winner) ==
    IF winner = prev.dealerIndex
    THEN [dealerIndex |-> prev.dealerIndex,
          honba |-> prev.honba + Num(1),
          kyokuIndex |-> prev.kyokuIndex]
    ELSE [dealerIndex |-> ensureSeatIndex(prev.dealerIndex + 1),
          honba |-> Num(0),
          kyokuIndex |-> JsRem(prev.kyokuIndex + Num(1), Num(8))]

RonUpdater(prev, view, winner, loser, han, fu, ronRiichi) ==
    LET deltas == RonDeltas(prev, winner, loser, han, fu, ronRiichi)
        newPoints == applyDeltas(prev.points, deltas)
        entry == buildHistoryEntry(view, "ron",
                    Len(RiichiIndices(ronRiichi)),
                    RiichiPlayers(prev, ronRiichi), deltas)
        next == RonNextRound(prev, winner)
        afterSnapshot ==
            [points |-> newPoints,
             kyotaku |-> 0,
             honba |-> next.honba,
             kyokuIndex |-> next.kyokuIndex,
             dealerIndex |-> next.dealerIndex,
             history |-> <<entry>> \o prev.history,
             names |-> prev.names]
        meta == [type |-> "ron",
                 summary |-> <<prev.names[winner], prev.names[loser],
                               entry.roundLabel>>]
    IN  Committed(prev, afterSnapshot, meta)

RECURSIVE ConfirmDrawOneLoop(_, _, _)
ConfirmDrawOneLoop(idx, deltas, tenpaiIndex) ==
    IF idx > 3 THEN deltas
    ELSE IF idx = tenpaiIndex THEN ConfirmDrawOneLoop(idx + 1, deltas, tenpaiIndex)
    ELSE ConfirmDrawOneLoop(idx + 1,
            [[deltas EXCEPT ![idx] = @ - 1000] EXCEPT ![tenpaiIndex] = @ + 1000],
            tenpaiIndex)

RECURSIVE ConfirmDrawThreeLoop(_, _, _)
ConfirmDrawThreeLoop(idx, deltas, notIndex) ==
    IF idx > 3 THEN deltas
    ELSE IF idx = notIndex THEN ConfirmDrawThreeLoop(idx + 1, deltas, notIndex)
    ELSE ConfirmDrawThreeLoop(idx + 1,
            [[deltas EXCEPT ![notIndex] = @ - 1000] EXCEPT ![idx] = @ + 1000],
            notIndex)

\* Mutant of DrawDeltas: with two tenpai seats 1000 changes hands, not 1500.
DrawDeltasThousand(prev, drawTenpai, drawRiichi) ==
    LET d0 == RiichiDeltas(drawRiichi)
        tenpaiCount == TenpaiCount(drawTenpai)
    IN  IF tenpaiCount = 1
        THEN ConfirmDrawOneLoop(0, d0, FindIndex(drawTenpai, TRUE))
        ELSE IF tenpaiCount = 2
        THEN [i \in SeatIndex |->
                IF drawTenpai[i] THEN d0[i] + 1000 ELSE d0[i] - 1000]
        ELSE IF tenpaiCount = 3
        THEN ConfirmDrawThreeLoop(0, d0, FindIndex(drawTenpai, FALSE))
        ELSE d0

\* deltas of handleDrawConfirm's updater.
DrawDeltas(prev, drawTenpai, drawRiichi) ==
    LET d0 == RiichiDeltas(drawRiichi)
        tenpaiCount == TenpaiCount(drawTenpai)
    IN  IF tenpaiCount = 1
        THEN ConfirmDrawOneLoop(0, d0, FindIndex(drawTenpai, TRUE))
        ELSE IF tenpaiCount = 2
        THEN [i \in SeatIndex |->
                IF drawTenpai[i] THEN d0[i] + 1500 ELSE d0[i] - 1500]
        ELSE IF tenpaiCount = 3
        THEN ConfirmDrawThreeLoop(0, d0, FindIndex(drawTenpai, FALSE))
        ELSE d0

\* Mutant of DrawNextRound: the dealer stays when any seat is tenpai
\* (anyTenpai in place of drawTenpai[prev.dealerIndex]).
DrawNextRoundAnyTenpai(prev, drawTenpai) ==
    IF ~(\E i \in SeatIndex : drawTenpai[i])
    THEN [dealerIndex |-> ensureSeatIndex(prev.dealerIndex + 1),
          honba |-> prev.honba + Num(1),
          kyokuIndex |-> JsRem(prev.kyokuIndex + Num(1), Num(8))]
    ELSE [dealerIndex |-> prev.dealerIndex,
          honba |-> prev.honba + Num(1),
          kyokuIndex |-> prev.kyokuIndex]

\* Dealer retention or rotation after an exhaustive draw (1138-1147).
DrawNextRound(prev, drawTenpai) ==
    IF ~drawTenpai[prev.dealerIndex]
    THEN [dealerIndex |-> ensureSeatIndex(prev.dealerIndex + 1),
          honba |-> prev.honba + Num(1),
          kyokuIndex |-> JsRem(prev.kyokuIndex + Num(1), Num(8))]
    ELSE [dealerIndex |-> prev.dealerIndex,
          honba |-> prev.honba + Num(1),
          kyokuIndex |-> prev.kyokuIndex]

\* Mutant of DrawUpdater: a draw with no flag set is not settled.
DrawUpdaterSkipsBlank(prev, view, drawTenpai, drawRiichi) ==
    IF \A i \in SeatIndex : ~drawTenpai[i] /\ ~drawRiichi[i]
    THEN prev
    ELSE
    LET deltas == DrawDeltas(prev, drawTenpai, drawRiichi)
        riichiCount == Len(RiichiIndices(drawRiichi))
        entry == buildHistoryEntry(view, "draw", riichiCount,
                    RiichiPlayers(prev, drawRiichi), deltas)
        next == DrawNextRound(prev, drawTenpai)
        afterSnapshot ==
            [points |-> applyDeltas(prev.points, deltas),
             kyotaku |-> prev.kyotaku + riichiCount,
             honba |-> next.honba,
             kyokuIndex |-> next.kyokuIndex,
             dealerIndex |-> next.dealerIndex,
             history |-> <<entry>> \o prev.history,
             names |-> prev.names]
        meta == [type |-> "draw", summary |-> <<entry.roundLabel>>]
    IN  Committed(prev, afterSnapshot, meta)

\* Mutant of DrawUpdater: the pool is emptied as after a win.
DrawUpdaterEmptiesPool(prev, view, drawTenpai, drawRiichi) ==
    LET deltas == DrawDeltas(prev, drawTenpai, drawRiichi)
        riichiCount == Len(RiichiIndices(drawRiichi))
        entry == buildHistoryEntry(view, "draw", riichiCount,
                    RiichiPlayers(prev, drawRiichi), deltas)
        next == DrawNextRound(prev, drawTenpai)
        afterSnapshot ==
            [points |-> applyDeltas(prev.points, deltas),
             kyotaku |-> 0,
             honba |-> next.honba,
             kyokuIndex |-> next.kyokuIndex,
             dealerIndex |-> next.dealerIndex,
             history |-> <<entry>> \o prev.history,
             names |-> prev.names]
        meta == [type |-> "draw", summary |-> <<entry.roundLabel>>]
    IN  Committed(prev, afterSnapshot, meta)

\* Mutant of DrawUpdater: the next round is computed from the rendered
\* state (the handler's closure), not from the updater's prev.
DrawUpdaterStaleRound(prev, view, drawTenpai, drawRiichi) ==
    LET deltas == DrawDeltas(prev, drawTenpai, drawRiichi)
        riichiCount == Len(RiichiIndices(drawRiichi))
        entry == buildHistoryEntry(view, "draw", riichiCount,
                    RiichiPlayers(prev, drawRiichi), deltas)
        next == DrawNextRound(view, drawTenpai)
        afterSnapshot ==
            [points |-> applyDeltas(prev.points, deltas),
             kyotaku |-> prev.kyotaku + riichiCount,
             honba |-> next.honba,
             kyokuIndex |-> next.kyokuIndex,
             dealerIndex |-> next.dealerIndex,
             history |-> <<entry>> \o prev.history,
             names |-> prev.names]
        meta == [type |-> "draw", summary |-> <<entry.roundLabel>>]
    IN  Committed(prev, afterSnapshot, meta)

DrawUpdater(prev, view, drawTenpai, drawRiichi) ==
    LET deltas == DrawDeltas(prev, drawTenpai, drawRiichi)
        riichiCount == Len(RiichiIndices(drawRiichi))
        newPoints == applyDeltas(prev.points, deltas)
        newKyotaku == prev.kyotaku + riichiCount
        entry == buildHistoryEntry(view, "draw", riichiCount,
                    RiichiPlayers(prev, drawRiichi), deltas)
        next == DrawNextRound(prev, drawTenpai)
        afterSnapshot ==
            [points |-> newPoints,
             kyotaku |-> newKyotaku,
             honba |-> next.honba,
             kyokuIndex |-> next.kyokuIndex,
             dealerIndex |-> next.dealerIndex,
             history |-> <<entry>> \o prev.history,
             names |-> prev.names]
        meta == [type |-> "draw", summary |-> <<entry.roundLabel>>]
    IN  Committed(prev, afterSnapshot, meta)

-----------------------------------------------------------------------------
(* Handlers as actions.  Each sets state' and lastOp'; the re-render that    *)
(* follows an event, with its persist effect (Rerender), is added by the     *)
(* specification.                                                            *)

Request(kind, accepted, args) == [kind |-> kind, accepted |-> accepted, args |-> args]

NoArgs == [none |-> TRUE]

InvalidHanFu(han, fu) ==
    ~NumberIsFinite(han) \/ han.value <= 0 \/ ~NumberIsFinite(fu) \/ fu.value <= 0

\* Mutant of resetGame: the pending pair survives the reset.
resetGameKeepsPair(resetNames) ==
    /\ state' = [createInitialGameState EXCEPT
                    !.names = IF resetNames THEN createDefaultNames ELSE state.names,
                    !.lastSettlementBefore = state.lastSettlementBefore,
                    !.lastSettlementAfter = state.lastSettlementAfter,
                    !.lastSettlementMeta = state.lastSettlementMeta,
                    !.isInUndo = state.isInUndo]
    /\ lastOp' = Request("reset", TRUE, [resetNames |-> resetNames])

resetGame(resetNames) ==
    /\ state' = [createInitialGameState EXCEPT
                    !.names = IF resetNames THEN createDefaultNames ELSE state.names]
    /\ lastOp' = Request("reset", TRUE, [resetNames |-> resetNames])

\* What the number field of the dialog keeps of Number(e.target.value):
\* Math.min(4, Math.max(1, value || 1)).  Nothing rounds the value.
setEditNumber(value) ==
    LET given == IF value = Num(0) THEN Num(1) ELSE value
        atLeast == IF given > Num(1) THEN given ELSE Num(1)
    IN  IF atLeast < Num(4) THEN atLeast ELSE Num(4)

\* What the honba field keeps of Number(e.target.value):
\* Math.max(0, value || 0).
setEditHonba(value) == IF value > Num(0) THEN value ELSE Num(0)

\* Mutant of handleEditRoundConfirm: the edit is taken as a new baseline and
\* the pending pair is dropped.
handleEditRoundConfirmDropsPair(editWind, editNumber, editHonba, editDealer) ==
    LET kyokuIndex == IF editWind = "East" THEN editNumber - Num(1)
                      ELSE Num(3) + editNumber
    IN  /\ state' = [state EXCEPT
                        !.honba = IF editHonba > Num(0) THEN editHonba ELSE Num(0),
                        !.kyokuIndex = kyokuIndex,
                        !.dealerIndex = editDealer,
                        !.lastSettlementBefore = Null,
                        !.lastSettlementAfter = Null,
                        !.lastSettlementMeta = Null,
                        !.isInUndo = FALSE]
        /\ lastOp' = Request("editRound", TRUE,
                        [editWind |-> editWind, editNumber |-> editNumber,
                         editHonba |-> editHonba, editDealer |-> editDealer])

handleEditRoundConfirm(editWind, editNumber, editHonba, editDealer) ==
    LET kyokuIndex == IF editWind = "East" THEN editNumber - Num(1)
                      ELSE Num(3) + editNumber
    IN  /\ state' = [state EXCEPT
                        !.honba = IF editHonba > Num(0) THEN editHonba ELSE Num(0),
                        !.kyokuIndex = kyokuIndex,
                        !.dealerIndex = editDealer]
        /\ lastOp' = Request("editRound", TRUE,
                        [editWind |-> editWind, editNumber |-> editNumber,
                         editHonba |-> editHonba, editDealer |-> editDealer])

\* Mutant of saveNames: the entries hold the names array by reference, so
\* the edit shows in every entry.
saveNamesIntoEntries(editNames) ==
    /\ state' = [state EXCEPT
                    !.names = sanitizeNames(editNames),
                    !.history = [k \in 1..Len(state.history) |->
                                    [state.history[k] EXCEPT
                                        !.playerNames = sanitizeNames(editNames)]]]
    /\ lastOp' = Request("editNames", TRUE, [editNames |-> editNames])

\* Mutant of saveNames: the new names are also written into the pending
\* pair's snapshots.
saveNamesIntoSnapshots(editNames) ==
    LET names == sanitizeNames(editNames)
        renamed(snapshot) == IF snapshot = Null
                             THEN Null
                             ELSE [snapshot EXCEPT !.names = names]
    IN  /\ state' = [state EXCEPT
                        !.names = names,
                        !.lastSettlementBefore = renamed(@),
                        !.lastSettlementAfter = renamed(@)]
        /\ lastOp' = Request("editNames", TRUE, [editNames |-> editNames])

\* The onClick of the "save names" button (1328-1334).
saveNames(editNames) ==
    /\ state' = [state EXCEPT !.names = sanitizeNames(editNames)]
    /\ lastOp' = Request("editNames", TRUE, [editNames |-> editNames])

\* Mutant of UndoUpdater: the ledger is emptied instead of restored.
UndoUpdaterEmptiesLedger(prev) ==
    IF ~TruthyObject(prev.lastSettlementBefore)
       \/ ~TruthyObject(prev.lastSettlementAfter)
       \/ ~TruthyObject(prev.lastSettlementMeta)
    THEN prev
    ELSE LET snapshot == prev.lastSettlementBefore IN
         [prev EXCEPT
            !.points = snapshot.points,
            !.kyotaku = snapshot.kyotaku,
            !.honba = snapshot.honba,
            !.kyokuIndex = snapshot.kyokuIndex,
            !.dealerIndex = snapshot.dealerIndex,
            !.history = <<>>,
            !.names = snapshot.names,
            !.isInUndo = TRUE]

\* Mutant of UndoUpdater: the history is not restored.
UndoUpdaterKeepsHistory(prev) ==
    IF ~TruthyObject(prev.lastSettlementBefore)
       \/ ~TruthyObject(prev.lastSettlementAfter)
       \/ ~TruthyObject(prev.lastSettlementMeta)
    THEN prev
    ELSE LET snapshot == prev.lastSettlementBefore IN
         [prev EXCEPT
            !.points = snapshot.points,
            !.kyotaku = snapshot.kyotaku,
            !.honba = snapshot.honba,
            !.kyokuIndex = snapshot.kyokuIndex,
            !.dealerIndex = snapshot.dealerIndex,
            !.names = snapshot.names,
            !.isInUndo = TRUE]

\* Mutant of UndoUpdater: the guard on the three pending fields is removed;
\* reading the points of a null snapshot throws a TypeError.
UndoUpdaterNoGuard(prev) ==
    LET snapshot == prev.lastSettlementBefore IN
    IF snapshot = Null
    THEN [thrown |-> "TypeError"]
    ELSE [prev EXCEPT
            !.points = snapshot.points,
            !.kyotaku = snapshot.kyotaku,
            !.honba = snapshot.honba,
            !.kyokuIndex = snapshot.kyokuIndex,
            !.dealerIndex = snapshot.dealerIndex,
            !.history = snapshot.history,
            !.names = snapshot.names,
            !.isInUndo = TRUE]

\* The updater of handleUndoLastSettlement (737-759).
UndoUpdater(prev) ==
    IF ~TruthyObject(prev.lastSettlementBefore)
       \/ ~TruthyObject(prev.lastSettlementAfter)
       \/ ~TruthyObject(prev.lastSettlementMeta)
    THEN prev
    ELSE LET snapshot == prev.lastSettlementBefore IN
         [prev EXCEPT
            !.points = snapshot.points,
            !.kyotaku = snapshot.kyotaku,
            !.honba = snapshot.honba,
            !.kyokuIndex = snapshot.kyokuIndex,
            !.dealerIndex = snapshot.dealerIndex,
            !.history = snapshot.history,
            !.names = snapshot.names,
            !.isInUndo = TRUE]

\* args.enabled: whether the rendered button was enabled (disabled={!canUndo}).
handleUndoLastSettlement ==
    /\ state' = UndoUpdater(state)
    /\ lastOp' = Request("undo", TRUE, [enabled |-> rendered.canUndo])

\* Mutant of RedoUpdater: the round and the names are left as they are now
\* (a manual edit made since the settlement survives the redo).
RedoUpdaterKeepsEdits(prev) ==
    IF ~TruthyObject(prev.lastSettlementBefore)
       \/ ~TruthyObject(prev.lastSettlementAfter)
       \/ ~TruthyObject(prev.lastSettlementMeta)
    THEN prev
    ELSE IF ~TruthyFlag(prev.isInUndo) THEN prev
    ELSE LET snapshot == prev.lastSettlementAfter IN
         [prev EXCEPT
            !.points = snapshot.points,
            !.kyotaku = snapshot.kyotaku,
            !.history = snapshot.history,
            !.isInUndo = FALSE]

RedoUpdater(prev) ==
    IF ~TruthyObject(prev.lastSettlementBefore)
       \/ ~TruthyObject(prev.lastSettlementAfter)
       \/ ~TruthyObject(prev.lastSettlementMeta)
    THEN prev
    ELSE IF ~TruthyFlag(prev.isInUndo) THEN prev
    ELSE LET snapshot == prev.lastSettlementAfter IN
         [prev EXCEPT
            !.points = snapshot.points,
            !.kyotaku = snapshot.kyotaku,
            !.honba = snapshot.honba,
            !.kyokuIndex = snapshot.kyokuIndex,
            !.dealerIndex = snapshot.dealerIndex,
            !.history = snapshot.history,
            !.names = snapshot.names,
            !.isInUndo = FALSE]

handleRedoLastSettlement ==
    /\ state' = RedoUpdater(state)
    /\ lastOp' = Request("redo", TRUE, [enabled |-> rendered.canRedo])

\* Mutant of UndoButton: the button is never disabled.
UndoButtonAlwaysFires == handleUndoLastSettlement

\* The undo button (2461-2462): it is rendered with disabled={!canUndo}, and
\* a click on a disabled button fires no event.
UndoButton ==
    IF rendered.canUndo
    THEN handleUndoLastSettlement
    ELSE /\ state' = state
         /\ lastOp' = Request("undo", FALSE, [enabled |-> FALSE])

\* The redo button (2496-2497): disabled={!canRedo}.
RedoButton ==
    IF rendered.canRedo
    THEN handleRedoLastSettlement
    ELSE /\ state' = state
         /\ lastOp' = Request("redo", FALSE, [enabled |-> FALSE])

handleTsumoConfirm(tsumoWinner, tsumoHan, tsumoFu, tsumoRiichi) ==
    LET han == parseInput(tsumoHan)
        fu == parseInput(tsumoFu)
        args == [winner |-> tsumoWinner, hanInput |-> tsumoHan,
                 fuInput |-> tsumoFu, riichi |-> tsumoRiichi]
    IN  IF tsumoWinner = NullSeat \/ InvalidHanFu(han, fu)
        THEN /\ state' = state
             /\ lastOp' = Request("tsumo", FALSE, args)
        ELSE /\ state' = TsumoUpdater(state, rendered, tsumoWinner,
                                      han.value, fu.value, tsumoRiichi)
             /\ lastOp' = Request("tsumo", TRUE, args)

handleRonConfirm(ronWinner, ronLoser, ronHan, ronFu, ronRiichi) ==
    LET han == parseInput(ronHan)
        fu == parseInput(ronFu)
        args == [winner |-> ronWinner, loser |-> ronLoser, hanInput |-> ronHan,
                 fuInput |-> ronFu, riichi |-> ronRiichi]
    IN  IF ronWinner = NullSeat \/ ronLoser = NullSeat
           \/ ronWinner = ronLoser \/ InvalidHanFu(han, fu)
        THEN /\ state' = state
             /\ lastOp' = Request("ron", FALSE, args)
        ELSE /\ state' = RonUpdater(state, rendered, ronWinner, ronLoser,
                                    han.value, fu.value, ronRiichi)
             /\ lastOp' = Request("ron", TRUE, args)

handleDrawConfirm(drawTenpai, drawRiichi) ==
    /\ state' = DrawUpdater(state, rendered, drawTenpai, drawRiichi)
    /\ lastOp' = Request("draw", TRUE,
                    [tenpai |-> drawTenpai, riichi |-> drawRiichi])

-----------------------------------------------------------------------------
(* Local storage: App.tsx:549-587.  A JSON value is a record tagged with    *)
(* its JavaScript type; a property that is missing reads as undefined.  An  *)
(* object carries the record it denotes.  The numbers under honba and       *)
(* kyokuIndex are held in halves, as they are in the state (see Num).       *)

JNumber(n) == [type |-> "number", num |-> n]
JString(chars) == [type |-> "string", chars |-> chars]
JBoolean(b) == [type |-> "boolean", bool |-> b]
JArray(items) == [type |-> "array", items |-> items]
JObject(value) == [type |-> "object", value |-> value]
JNull == [type |-> "null"]
JUndefined == [type |-> "undefined"]

\* JSON.stringify(state) read back by JSON.parse: the persisted document of
\* a state.  What the load effect took from a stored document and the state
\* holds tagged (points that are not four numbers, an item of the history
\* that is no object, an undo field of another type) is written as it is.
ToJson(st) ==
    LET nullable(v) == IF v = Null THEN JNull
                       ELSE IF IsJsonValue(v) THEN v
                       ELSE JObject(v)
        flag(v) == IF IsBoolean(v) THEN JBoolean(v) ELSE v
        item(v) == IF IsJsonValue(v) THEN v ELSE JObject(v)
    IN  JObject(
        [points |-> IF DOMAIN st.points = SeatIndex
                    THEN JArray([k \in 1..4 |-> JNumber(st.points[k - 1])])
                    ELSE st.points,
         kyotaku |-> JNumber(st.kyotaku),
         honba |-> JNumber(st.honba),
         kyokuIndex |-> JNumber(st.kyokuIndex),
         dealerIndex |-> JNumber(st.dealerIndex),
         history |-> JArray([k \in 1..Len(st.history) |-> item(st.history[k])]),
         names |-> JArray([k \in 1..4 |-> JString(st.names[k - 1])]),
         lastSettlementBefore |-> nullable(st.lastSettlementBefore),
         lastSettlementAfter |-> nullable(st.lastSettlementAfter),
         lastSettlementMeta |-> nullable(st.lastSettlementMeta),
         isInUndo |-> flag(st.isInUndo)])

\* What localStorage.getItem returned and, for a text that parses, the value
\* JSON.parse gave.
Stored(raw, parsed) == [raw |-> raw, parsed |-> parsed]

\* Mutant of PersistEffect: an item that is already there is not overwritten.
PersistEffectKeepsExisting(st) ==
    stored' = IF stored.raw = "absent" THEN Stored("json", ToJson(st)) ELSE stored

\* The persist effect (584-587): after a render with a changed state the
\* item is JSON.stringify(state).
PersistEffect(st) == stored' = Stored("json", ToJson(st))

-----------------------------------------------------------------------------
(* Rendering *)

\* What a render captures for the handlers and buttons: buildHistoryEntry's
\* reads of `state`, and the availability of undo and redo.
RenderOf(st) ==
    [kyokuIndex |-> st.kyokuIndex,
     honba |-> st.honba,
     dealerIndex |-> st.dealerIndex,
     names |-> st.names,
     historyLength |-> Len(st.history),
     canUndo |-> canUndo(st),
     canRedo |-> canRedo(st)]

\* React renders again after an event: the closures see the new state, and
\* the persist effect of that render writes it to local storage.
Rerender ==
    /\ rendered' = RenderOf(state')
    /\ PersistEffect(state')

-----------------------------------------------------------------------------
(* Inputs explored *)

Flags(S) == [i \in SeatIndex |-> i \in S]

AllFlags == {Flags(S) : S \in SUBSET SeatIndex}

RECURSIVE DecString(_)
\* The decimal digits of n >= 0, as typed into a number field.
DecString(n) ==
    IF n < 10 THEN <<Digits[n + 1]>>
    ELSE DecString(n \div 10) \o <<Digits[(n % 10) + 1]>>

\* Inputs that parse to no positive finite number, and inputs parseInt reads
\* in part.
BadNumberInputs ==
    {<<>>, <<"0">>, <<"-", "2">>, <<"a", "b">>, [k \in 1..310 |-> "9"]}
OddNumberInputs == {<<" ", "3">>, <<"\r", "3">>, <<"4", ".", "5">>}

\* (han, fu) of the hands explored in width: every tier of the table, the
\* two kiriage hands, and base points that are no multiple of 100.
WideHanFu ==
    {<<1, 30>>, <<1, 40>>, <<1, 110>>, <<2, 25>>, <<2, 30>>, <<2, 110>>,
     <<3, 30>>, <<3, 40>>, <<3, 60>>, <<4, 25>>, <<4, 30>>, <<4, 40>>,
     <<5, 30>>, <<6, 30>>, <<8, 30>>, <<11, 30>>, <<13, 20>>}

WideTsumoInputs ==
    {[winner |-> w, hanInput |-> DecString(hf[1]), fuInput |-> DecString(hf[2]),
      riichi |-> r] : w \in SeatIndex, hf \in WideHanFu, r \in AllFlags}

WideRonInputs ==
    {[winner |-> wl[1], loser |-> wl[2], hanInput |-> DecString(hf[1]),
      fuInput |-> DecString(hf[2]), riichi |-> r] :
        wl \in {p \in SeatIndex \X SeatIndex : p[1] # p[2]},
        hf \in WideHanFu, r \in AllFlags}

WideDrawInputs == {[tenpai |-> t, riichi |-> r] : t \in AllFlags, r \in AllFlags}

NarrowTsumoInputs ==
    {[winner |-> 0, hanInput |-> <<"3">>, fuInput |-> <<"4", "0">>,
      riichi |-> Flags({})],
     [winner |-> 1, hanInput |-> <<"1">>, fuInput |-> <<"3", "0">>,
      riichi |-> Flags({1, 2})],
     [winner |-> 2, hanInput |-> <<"0">>, fuInput |-> <<"4", "0">>,
      riichi |-> Flags({})]}

NarrowRonInputs ==
    {[winner |-> 0, loser |-> 1, hanInput |-> <<"3">>, fuInput |-> <<"4", "0">>,
      riichi |-> Flags({})],
     [winner |-> 3, loser |-> 2, hanInput |-> <<"4">>, fuInput |-> <<"3", "0">>,
      riichi |-> Flags({2})],
     [winner |-> 1, loser |-> 1, hanInput |-> <<"3">>, fuInput |-> <<"4", "0">>,
      riichi |-> Flags({})]}

NarrowDrawInputs ==
    {[tenpai |-> Flags({}), riichi |-> Flags({})],
     [tenpai |-> Flags({0}), riichi |-> Flags({0})],
     [tenpai |-> Flags({1, 2}), riichi |-> Flags({1, 3})],
     [tenpai |-> Flags({1, 2, 3}), riichi |-> Flags({})]}

EditRoundInputs ==
    {[editWind |-> "South", editNumber |-> Num(4), editHonba |-> Num(2), editDealer |-> 3]}

JsString(chars) == [isString |-> TRUE, chars |-> chars]

EditNamesInputs ==
    {[isArray |-> TRUE,
      items |-> <<JsString(<<" ", "A", "l", " ">>), JsString(<<>>),
                  JsString(<<" ">>), JsString(<<"B", "o">>)>>]}

-----------------------------------------------------------------------------
(* The scoreboard: every operation, narrow inputs *)

Init ==
    /\ state = createInitialGameState
    /\ rendered = RenderOf(createInitialGameState)
    /\ stored = Stored("json", ToJson(createInitialGameState))
    /\ lastOp = Request("init", TRUE, NoArgs)

CanSettle == Len(state.history) < MaxHistory

TsumoConfirm ==
    /\ CanSettle
    /\ \E in \in NarrowTsumoInputs :
          handleTsumoConfirm(in.winner, in.hanInput, in.fuInput, in.riichi)
    /\ Rerender

RonConfirm ==
    /\ CanSettle
    /\ \E in \in NarrowRonInputs :
          handleRonConfirm(in.winner, in.loser, in.hanInput, in.fuInput, in.riichi)
    /\ Rerender

DrawConfirm ==
    /\ CanSettle
    /\ \E in \in NarrowDrawInputs : handleDrawConfirm(in.tenpai, in.riichi)
    /\ Rerender

Undo == UndoButton /\ Rerender

Redo == RedoButton /\ Rerender

EditRound ==
    /\ \E in \in EditRoundInputs :
          handleEditRoundConfirm(in.editWind, in.editNumber, in.editHonba,
                                 in.editDealer)
    /\ Rerender

EditNames == (\E in \in EditNamesInputs : saveNames(in)) /\ Rerender

Reset == (\E resetNames \in BOOLEAN : resetGame(resetNames)) /\ Rerender

Next ==
    \/ TsumoConfirm
    \/ RonConfirm
    \/ DrawConfirm
    \/ Undo
    \/ Redo
    \/ EditRound
    \/ EditNames
    \/ Reset

Spec == Init /\ [][Next]_vars

-----------------------------------------------------------------------------
(* One hand explored in width: after MaxHistory - 1 preparation hands (which *)
(* move the dealer and build up honba and the pool), the last hand takes     *)
(* every seat choice, every riichi and tenpai flag vector and every hand     *)
(* value of WideHanFu, and some inputs that are rejected or read in part.    *)

\* The exploration of a hand ends with its first request, accepted or not.
Preparing == lastOp.accepted /\ Len(state.history) < MaxHistory - 1

LastHand == lastOp.accepted /\ Len(state.history) = MaxHistory - 1

PrepareTsumo ==
    /\ Preparing
    /\ \E in \in NarrowTsumoInputs :
          handleTsumoConfirm(in.winner, in.hanInput, in.fuInput, in.riichi)
    /\ Rerender

PrepareDraw ==
    /\ Preparing
    /\ \E in \in NarrowDrawInputs : handleDrawConfirm(in.tenpai, in.riichi)
    /\ Rerender

WideTsumo ==
    /\ LastHand
    /\ \E in \in WideTsumoInputs :
          handleTsumoConfirm(in.winner, in.hanInput, in.fuInput, in.riichi)
    /\ Rerender

WideRon ==
    /\ LastHand
    /\ \E in \in WideRonInputs :
          handleRonConfirm(in.winner, in.loser, in.hanInput, in.fuInput, in.riichi)
    /\ Rerender

WideDraw ==
    /\ LastHand
    /\ \E in \in WideDrawInputs : handleDrawConfirm(in.tenpai, in.riichi)
    /\ Rerender

\* Inputs the confirmation rejects, or of which parseInt reads a prefix.
OddTsumo ==
    /\ LastHand
    /\ \E w \in {0, NullSeat},
          h \in BadNumberInputs \cup OddNumberInputs \cup {<<"3">>},
          f \in BadNumberInputs \cup OddNumberInputs \cup {<<"4", "0">>} :
          handleTsumoConfirm(w, h, f, Flags({1}))
    /\ Rerender

OddRon ==
    /\ LastHand
    /\ \E w \in {0, 1, NullSeat}, l \in {1, NullSeat},
          h \in BadNumberInputs \cup OddNumberInputs \cup {<<"3">>},
          f \in {<<>>, <<"4", "0">>} :
          handleRonConfirm(w, l, h, f, Flags({1}))
    /\ Rerender

NextHand ==
    \/ PrepareTsumo
    \/ PrepareDraw
    \/ WideTsumo
    \/ WideRon
    \/ WideDraw
    \/ OddTsumo
    \/ OddRon

SpecHand == Init /\ [][NextHand]_vars

-----------------------------------------------------------------------------
(* The scoring table, tabulated *)

InitScore ==
    /\ state = createInitialGameState
    /\ rendered = RenderOf(createInitialGameState)
    /\ stored = Stored("json", ToJson(createInitialGameState))
    /\ \E han \in 1..MaxHan, fu \in 1..MaxFu :
          lastOp = Request("score", FALSE, [han |-> han, fu |-> fu])

ScoreTable ==
    /\ lastOp.kind = "score"
    /\ lastOp' = Request("calcBasePoints", TRUE,
                    [han |-> lastOp.args.han, fu |-> lastOp.args.fu,
                     result |-> calcBasePoints(lastOp.args.han, lastOp.args.fu)])
    /\ UNCHANGED <<state, rendered, stored>>

NextScore == ScoreTable

SpecScore == InitScore /\ [][NextScore]_vars

-----------------------------------------------------------------------------
(* A match played through: only settlements that move the dealer on (a win  *)
(* by a non-dealer, a draw with the dealer noten), with undo and redo, up   *)
(* to MaxCycle hands.  The self-draw is a yakuman, so stacks go below zero. *)

AdvancingTsumoInputs(st) ==
    LET w == ensureSeatIndex(st.dealerIndex + 1) IN
    {[winner |-> w, hanInput |-> <<"1", "3">>, fuInput |-> <<"2", "0">>,
      riichi |-> Flags({w})]}

AdvancingRonInputs(st) ==
    {[winner |-> ensureSeatIndex(st.dealerIndex + 2), loser |-> st.dealerIndex,
      hanInput |-> <<"1">>, fuInput |-> <<"3", "0">>, riichi |-> Flags({})]}

AdvancingDrawInputs(st) ==
    {[tenpai |-> Flags({ensureSeatIndex(st.dealerIndex + 1)}),
      riichi |-> Flags({st.dealerIndex})]}

CanPlayOn == Len(state.history) < MaxCycle

CycleTsumo ==
    /\ CanPlayOn
    /\ \E in \in AdvancingTsumoInputs(state) :
          handleTsumoConfirm(in.winner, in.hanInput, in.fuInput, in.riichi)
    /\ Rerender

CycleRon ==
    /\ CanPlayOn
    /\ \E in \in AdvancingRonInputs(state) :
          handleRonConfirm(in.winner, in.loser, in.hanInput, in.fuInput, in.riichi)
    /\ Rerender

CycleDraw ==
    /\ CanPlayOn
    /\ \E in \in AdvancingDrawInputs(state) : handleDrawConfirm(in.tenpai, in.riichi)
    /\ Rerender

NextCycle ==
    \/ CycleTsumo
    \/ CycleRon
    \/ CycleDraw
    \/ Undo
    \/ Redo

SpecCycle == Init /\ [][NextCycle]_vars

-----------------------------------------------------------------------------
(* A match played without the round-edit dialog: self-draws, discard-wins   *)
(* and draws that keep the dealer and that move it on, undo, redo,          *)
(* name-edit and reset, up to MaxCycle hands (so the round index wraps).    *)
(* The three kinds of hand take turns from round to round: in each round    *)
(* two of them are explored moving the dealer on, and the third keeping     *)
(* the dealer (on honba 0).                                                 *)

\* A self-draw by the dealer, no riichi.
PlayDealerTsumo ==
    /\ CanPlayOn
    /\ state.honba < Num(1)
    /\ Whole(state.kyokuIndex) % 3 = 0
    /\ handleTsumoConfirm(state.dealerIndex, <<"1">>, <<"3", "0">>, Flags({}))
    /\ Rerender

\* A discard-win by the dealer from the next seat, no riichi.
PlayDealerRon ==
    /\ CanPlayOn
    /\ state.honba < Num(1)
    /\ Whole(state.kyokuIndex) % 3 = 1
    /\ handleRonConfirm(state.dealerIndex,
                        ensureSeatIndex(state.dealerIndex + 1),
                        <<"1">>, <<"3", "0">>, Flags({}))
    /\ Rerender

\* A draw with the dealer alone tenpai, no riichi.
PlayDealerDraw ==
    /\ CanPlayOn
    /\ state.honba < Num(1)
    /\ Whole(state.kyokuIndex) % 3 = 2
    /\ handleDrawConfirm(Flags({state.dealerIndex}), Flags({}))
    /\ Rerender

\* A self-draw by the seat across from the dealer, no riichi.
PlayTsumo ==
    /\ CanPlayOn
    /\ Whole(state.kyokuIndex) % 3 # 0
    /\ handleTsumoConfirm(ensureSeatIndex(state.dealerIndex + 2),
                          <<"1">>, <<"3", "0">>, Flags({}))
    /\ Rerender

\* A discard-win by a non-dealer from the dealer; a draw with the dealer
\* noten.

PlayRon ==
    /\ CanPlayOn
    /\ Whole(state.kyokuIndex) % 3 # 1
    /\ \E in \in AdvancingRonInputs(state) :
          handleRonConfirm(in.winner, in.loser, in.hanInput, in.fuInput,
                           in.riichi)
    /\ Rerender

PlayDraw ==
    /\ CanPlayOn
    /\ Whole(state.kyokuIndex) % 3 # 2
    /\ \E in \in AdvancingDrawInputs(state) :
          handleDrawConfirm(in.tenpai, in.riichi)
    /\ Rerender

PlayEditNames ==
    /\ Len(state.history) < 2
    /\ EditNames

NextPlay ==
    \/ PlayDealerTsumo
    \/ PlayDealerRon
    \/ PlayDealerDraw
    \/ PlayTsumo
    \/ PlayRon
    \/ PlayDraw
    \/ Undo
    \/ Redo
    \/ PlayEditNames
    \/ Reset

SpecPlay == Init /\ [][NextPlay]_vars

-----------------------------------------------------------------------------
(* One win for every hand value: after no hand or one draw (honba, a pool), *)
(* a self-draw or a discard-win with every han in 1..MaxHan and every fu in *)
(* 1..MaxFu, by the dealer and by a non-dealer.                             *)

ValuePrepare ==
    /\ lastOp.kind = "init"
    /\ \E in \in NarrowDrawInputs : handleDrawConfirm(in.tenpai, in.riichi)
    /\ Rerender

\* A round-edit before the hand: East 2 with honba 1 and dealer seat 1, or
\* East 1 with 0.5 typed into the honba field and dealer seat 0.
ValueEdit ==
    /\ lastOp.kind = "init"
    /\ \E in \in {[editNumber |-> Num(2), editHonba |-> Num(1),
                    editDealer |-> 1],
                   [editNumber |-> Num(1), editHonba |-> AndAHalf(0),
                    editDealer |-> 0]} :
          handleEditRoundConfirm("East", setEditNumber(in.editNumber),
                                 setEditHonba(in.editHonba), in.editDealer)
    /\ Rerender

ValueTsumo ==
    /\ lastOp.kind \in {"init", "draw", "editRound"}
    /\ \E han \in 1..MaxHan, fu \in 1..MaxFu,
          w \in {state.dealerIndex, ensureSeatIndex(state.dealerIndex + 1)} :
          handleTsumoConfirm(w, DecString(han), DecString(fu), Flags({w}))
    /\ Rerender

ValueRon ==
    /\ lastOp.kind \in {"init", "draw", "editRound"}
    /\ \E han \in 1..MaxHan, fu \in 1..MaxFu,
          wl \in {<<state.dealerIndex, ensureSeatIndex(state.dealerIndex + 1)>>,
                  <<ensureSeatIndex(state.dealerIndex + 1), state.dealerIndex>>,
                  <<ensureSeatIndex(state.dealerIndex + 1),
                    ensureSeatIndex(state.dealerIndex + 2)>>} :
          handleRonConfirm(wl[1], wl[2], DecString(han), DecString(fu),
                           Flags({wl[2]}))
    /\ Rerender

NextValue ==
    \/ ValuePrepare
    \/ ValueEdit
    \/ ValueTsumo
    \/ ValueRon

SpecValue == Init /\ [][NextValue]_vars

-----------------------------------------------------------------------------
(* The two edit dialogs explored in width: after at most one settlement,    *)
(* undone or not, one round-edit or one name-edit (for the round, whole     *)
(* and fractional numbers typed into the two number fields, in and out of   *)
(* range; for the names, every shape sanitizeNames tells apart), then the   *)
(* undo or redo that is available.                                          *)

\* The dialog after numbers were typed into its two number fields (an empty
\* field is the number 0): whole numbers in and out of range, and 0.5, 1.5,
\* 2.5 and 4.5.
WideEditRoundInputs ==
    {[editWind |-> w, editNumber |-> setEditNumber(n),
      editHonba |-> setEditHonba(h), editDealer |-> d] :
        w \in {"East", "South"},
        n \in {Num(k) : k \in -1..5}
               \cup {AndAHalf(0), AndAHalf(2), AndAHalf(4)},
        h \in {Num(k) : k \in -1..MaxEditHonba}
               \cup {AndAHalf(0), AndAHalf(1)},
        d \in SeatIndex}

\* Texts typed or pasted into a name field: blanks around a name, empty,
\* white space only (a carriage return and a no-break space, U+00A0), a
\* plain name, and a name with a blank inside and a tab, a form feed, a
\* no-break space and a line feed around it.
NameTexts ==
    {<<" ", "A", "l", " ">>, <<>>, <<"\r", " ">>, <<"B", "o">>,
     <<"\t", "\f", "C", " ", "d", " ", "\n">>}

NotAString == [isString |-> FALSE, chars |-> <<>>]

NameItems == {JsString(t) : t \in NameTexts} \cup {NotAString}

WideEditNamesInputs ==
    {[isArray |-> TRUE, items |-> <<a, b, c, d>>] :
        a \in NameItems, b \in NameItems, c \in NameItems, d \in NameItems}
    \cup {[isArray |-> FALSE, items |-> <<>>],
          [isArray |-> TRUE, items |-> <<JsString(<<"B", "o">>),
                                         JsString(<<"B", "o">>),
                                         JsString(<<"B", "o">>)>>],
          [isArray |-> TRUE, items |-> <<JsString(<<"B", "o">>),
                                         JsString(<<"B", "o">>),
                                         JsString(<<"B", "o">>),
                                         JsString(<<"B", "o">>),
                                         JsString(<<"B", "o">>)>>]}

NoEditYet == lastOp.kind \notin {"editRound", "editNames"}

EditPrepareTsumo ==
    /\ NoEditYet
    /\ Len(state.history) < 1
    /\ ~state.isInUndo
    /\ \E in \in NarrowTsumoInputs :
          handleTsumoConfirm(in.winner, in.hanInput, in.fuInput, in.riichi)
    /\ Rerender

EditPrepareDraw ==
    /\ NoEditYet
    /\ Len(state.history) < 1
    /\ ~state.isInUndo
    /\ \E in \in NarrowDrawInputs : handleDrawConfirm(in.tenpai, in.riichi)
    /\ Rerender

EditPrepareUndo ==
    /\ lastOp.kind \in {"tsumo", "draw"}
    /\ UndoButton
    /\ Rerender

WideEditRound ==
    /\ NoEditYet
    /\ \E in \in WideEditRoundInputs :
          handleEditRoundConfirm(in.editWind, in.editNumber, in.editHonba,
                                 in.editDealer)
    /\ Rerender

WideEditNames ==
    /\ NoEditYet
    /\ \E in \in WideEditNamesInputs : saveNames(in)
    /\ Rerender

\* Undo and redo requested right after an edit, while they are available.
UndoAfterEdit ==
    /\ ~NoEditYet
    /\ canUndo(state)
    /\ UndoButton
    /\ Rerender

RedoAfterEdit ==
    /\ ~NoEditYet
    /\ canRedo(state)
    /\ RedoButton
    /\ Rerender

NextEdit ==
    \/ EditPrepareTsumo
    \/ EditPrepareDraw
    \/ EditPrepareUndo
    \/ WideEditRound
    \/ WideEditNames
    \/ UndoAfterEdit
    \/ RedoAfterEdit

SpecEdit == Init /\ [][NextEdit]_vars

-----------------------------------------------------------------------------
(* Confirmations issued back-to-back: a handler queues its updater with     *)
(* setState and returns; the updaters run in order, each on the state the   *)
(* one before produced, and the component renders afterwards.  Until that   *)
(* render the handlers' closures (buildHistoryEntry's `state`) are those of *)
(* the last render.                                                         *)

BatchTsumo ==
    /\ CanSettle
    /\ \E in \in NarrowTsumoInputs :
          handleTsumoConfirm(in.winner, in.hanInput, in.fuInput, in.riichi)
    /\ UNCHANGED <<rendered, stored>>

BatchRon ==
    /\ CanSettle
    /\ \E in \in NarrowRonInputs :
          handleRonConfirm(in.winner, in.loser, in.hanInput, in.fuInput, in.riichi)
    /\ UNCHANGED <<rendered, stored>>

BatchDraw ==
    /\ CanSettle
    /\ \E in \in NarrowDrawInputs : handleDrawConfirm(in.tenpai, in.riichi)
    /\ UNCHANGED <<rendered, stored>>

Render ==
    /\ rendered # RenderOf(state)
    /\ rendered' = RenderOf(state)
    /\ PersistEffect(state)
    /\ lastOp' = Request("render", TRUE, NoArgs)
    /\ UNCHANGED state

NextBatch ==
    \/ BatchTsumo
    \/ BatchRon
    \/ BatchDraw
    \/ Render

SpecBatch == Init /\ [][NextBatch]_vars

-----------------------------------------------------------------------------
(* Load from local storage on mount: App.tsx:549-581 *)

\* parsed.name: undefined unless parsed is an object.
Field(parsed, name) ==
    IF parsed.type = "object" THEN parsed.value[name] ELSE JUndefined

\* parsed.lastSettlementBefore ?? null (and After, Meta): null for null and
\* undefined, the record of an object, any other value as it was parsed.
SnapshotOrNull(v) ==
    IF v.type \in {"null", "undefined"} THEN Null
    ELSE IF v.type = "object" THEN v.value
    ELSE v

\* parsed.isInUndo ?? false
FlagOrFalse(v) ==
    IF v.type \in {"null", "undefined"} THEN FALSE
    ELSE IF v.type = "boolean" THEN v.bool
    ELSE v

\* parsed.names as sanitizeNames sees it.
NamesInput(v) ==
    IF v.type = "array"
    THEN [isArray |-> TRUE,
          items |-> [k \in 1..Len(v.items) |->
                        IF v.items[k].type = "string"
                        THEN JsString(v.items[k].chars)
                        ELSE NotAString]]
    ELSE [isArray |-> FALSE, items |-> <<>>]

\* The condition under which the document is adopted (556-562).
loadGate(parsed) ==
    /\ Truthy(parsed)
    /\ Field(parsed, "points").type = "array"
    /\ Len(Field(parsed, "points").items) = 4
    /\ Field(parsed, "honba").type = "number"
    /\ Field(parsed, "kyokuIndex").type = "number"
    /\ Field(parsed, "dealerIndex").type = "number"

\* baseState (563-575).  The state holds parsed.points as the function of
\* its four numbers, or as the array that was parsed when an item is not a
\* number; an item of parsed.history as the record of an object, or as the
\* value that was parsed when it is no object.
baseState(parsed) ==
    [points |-> IF \A k \in 1..4 :
                      Field(parsed, "points").items[k].type = "number"
                THEN [i \in SeatIndex |->
                         Field(parsed, "points").items[i + 1].num]
                ELSE Field(parsed, "points"),
     kyotaku |-> IF Field(parsed, "kyotaku").type = "number"
                 THEN Field(parsed, "kyotaku").num
                 ELSE 0,
     honba |-> Field(parsed, "honba").num,
     kyokuIndex |-> Field(parsed, "kyokuIndex").num,
     dealerIndex |-> ensureSeatIndex(Field(parsed, "dealerIndex").num),
     history |-> IF Field(parsed, "history").type = "array"
                 THEN [k \in 1..Len(Field(parsed, "history").items) |->
                          IF Field(parsed, "history").items[k].type = "object"
                          THEN Field(parsed, "history").items[k].value
                          ELSE Field(parsed, "history").items[k]]
                 ELSE <<>>,
     names |-> sanitizeNames(NamesInput(Field(parsed, "names"))),
     lastSettlementBefore |-> SnapshotOrNull(Field(parsed, "lastSettlementBefore")),
     lastSettlementAfter |-> SnapshotOrNull(Field(parsed, "lastSettlementAfter")),
     lastSettlementMeta |-> SnapshotOrNull(Field(parsed, "lastSettlementMeta")),
     isInUndo |-> FlagOrFalse(Field(parsed, "isInUndo"))]

\* The load effect: nothing stored, an empty text, a text that does not
\* parse (caught) or a document that fails the gate leave the state alone.
LoadEffect ==
    /\ lastOp.kind = "mount"
    /\ LET item == stored
           adopted == item.raw = "json" /\ loadGate(item.parsed)
       IN  /\ state' = IF adopted THEN baseState(item.parsed) ELSE state
           /\ lastOp' = Request("load", adopted, [stored |-> item])
    /\ UNCHANGED <<rendered, stored>>

\* A state worth persisting: an exhaustive draw with a riichi stick, undone.
PersistedState ==
    UndoUpdater(DrawUpdater(createInitialGameState,
                            RenderOf(createInitialGameState),
                            Flags({0, 1}), Flags({1})))

\* The document with one property replaced.
WithField(doc, name, v) == JObject([doc.value EXCEPT ![name] = v])

PointsOptions ==
    {Field(ToJson(PersistedState), "points"),
     JArray(<<JString(<<"a">>), JString(<<"b">>), JString(<<"c">>), JString(<<"d">>)>>),
     JArray(<<JNumber(25000), JNumber(25000), JNumber(25000), JNull>>),
     JArray(<<JNumber(25000), JNumber(25000), JNumber(25000)>>),
     JString(<<"x">>),
     JUndefined}

NumberOptions == {JNumber(Num(2)), JString(<<"2">>), JNull, JUndefined}

DealerOptions ==
    {JNumber(d) : d \in {-5, -1, 0, 3, 4, 7}} \cup {JString(<<"1">>), JUndefined}

KyotakuOptions == {JNumber(1), JString(<<"1">>), JUndefined}

HistoryOptions ==
    {Field(ToJson(PersistedState), "history"),
     Field(ToJson(PersistedState), "lastSettlementAfter"),
     JArray(<<JNumber(1), JString(<<"a">>), JNull, JBoolean(TRUE)>>),
     JArray(<<JNumber(1), JString(<<"a">>), JBoolean(TRUE)>>),
     JString(<<"x">>),
     JUndefined}

NamesOptions ==
    {JArray(<<JString(<<" ", "A", "l", " ">>), JString(<<>>),
              JString(<<" ">>), JString(<<"B", "o">>)>>),
     JArray(<<JString(<<"B", "o">>), JNumber(1), JNull, JString(<<"A", "l">>)>>),
     JArray(<<JString(<<"B", "o">>), JString(<<"A", "l">>)>>),
     JString(<<"B", "o">>),
     JUndefined}

\* The pending pair and its flag: as persisted, absent, null, or values of
\* the wrong type, truthy and falsy.
UndoOptions ==
    {[before |-> Field(ToJson(PersistedState), "lastSettlementBefore"),
      after |-> Field(ToJson(PersistedState), "lastSettlementAfter"),
      meta |-> Field(ToJson(PersistedState), "lastSettlementMeta"),
      isInUndo |-> JBoolean(TRUE)],
     [before |-> JUndefined, after |-> JUndefined, meta |-> JUndefined,
      isInUndo |-> JUndefined],
     [before |-> JNull, after |-> JNull, meta |-> JNull,
      isInUndo |-> JBoolean(FALSE)],
     [before |-> JString(<<"x">>), after |-> JNumber(7),
      meta |-> JArray(<<>>), isInUndo |-> JString(<<"y", "e", "s">>)],
     [before |-> Field(ToJson(PersistedState), "lastSettlementBefore"),
      after |-> Field(ToJson(PersistedState), "lastSettlementAfter"),
      meta |-> JString(<<>>), isInUndo |-> JNumber(0)],
     [before |-> JNumber(0), after |-> JBoolean(FALSE),
      meta |-> Field(ToJson(PersistedState), "lastSettlementMeta"),
      isInUndo |-> JString(<<>>)]}

\* Documents that differ from a persisted state in the properties the gate
\* reads.
GateDocuments ==
    {WithField(WithField(WithField(WithField(ToJson(PersistedState),
        "points", p), "honba", h), "kyokuIndex", k), "dealerIndex", d) :
        p \in PointsOptions, h \in NumberOptions, k \in NumberOptions,
        d \in DealerOptions}

\* Documents that pass the gate and differ in the other properties.
FieldDocuments ==
    {WithField(WithField(WithField(WithField(WithField(WithField(WithField(
        WithField(ToJson(PersistedState),
        "dealerIndex", d), "kyotaku", ky), "history", hi), "names", na),
        "lastSettlementBefore", un.before), "lastSettlementAfter", un.after),
        "lastSettlementMeta", un.meta), "isInUndo", un.isInUndo) :
        d \in DealerOptions, ky \in KyotakuOptions, hi \in HistoryOptions,
        na \in NamesOptions, un \in UndoOptions}

StoredItems ==
    {Stored("absent", JUndefined), Stored("empty", JUndefined),
     Stored("unparsable", JUndefined)}
    \cup {Stored("json", v) :
            v \in {JNull, JNumber(0), JNumber(5), JString(<<"x">>), JArray(<<>>)}}
    \cup {Stored("json", doc) : doc \in GateDocuments \cup FieldDocuments}

InitLoad ==
    /\ state = createInitialGameState
    /\ rendered = RenderOf(createInitialGameState)
    /\ \E item \in StoredItems :
          /\ stored = item
          /\ lastOp = Request("mount", FALSE, [stored |-> item])

-----------------------------------------------------------------------------
(* Startup: the component mounts with the initial state, the load effect    *)
(* reads the stored item and queues the loaded state, the persist effect of *)
(* that first render writes the initial state, and the render that follows  *)
(* persists the loaded one.  Afterwards each event is followed by a render  *)
(* and its persist effect.  React runs the mount effects and every render   *)
(* it has scheduled: weak fairness on those steps.                          *)

StartupStates ==
    {createInitialGameState,
     PersistedState,
     DrawUpdater(createInitialGameState, RenderOf(createInitialGameState),
                 Flags({0, 1}), Flags({1})),
     TsumoUpdater(createInitialGameState, RenderOf(createInitialGameState),
                  1, 1, 30, Flags({1, 2}))}

\* The stored item at startup: none, a text that does not parse, a state
\* the program persisted, or a persisted state whose lastSettlementMeta was
\* replaced by the empty string.
StartupItems ==
    {Stored("absent", JUndefined), Stored("unparsable", JUndefined)}
    \cup {Stored("json", ToJson(d)) : d \in StartupStates}
    \cup {Stored("json", WithField(ToJson(PersistedState),
                                   "lastSettlementMeta", JString(<<>>)))}

InitStartup ==
    /\ state = createInitialGameState
    /\ rendered = RenderOf(createInitialGameState)
    /\ \E item \in StartupItems :
          /\ stored = item
          /\ lastOp = Request("mount", FALSE, [stored |-> item])

\* The persist effect of the first render: its `state` is the initial one.
MountPersist ==
    /\ lastOp.kind = "load"
    /\ PersistEffect(createInitialGameState)
    /\ lastOp' = Request("persist", lastOp.accepted, lastOp.args)
    /\ UNCHANGED <<state, rendered>>

Mounted == lastOp.kind \notin {"mount", "load"}

RenderPending ==
    rendered # RenderOf(state) \/ stored # Stored("json", ToJson(state))

\* The history table reads h.playerNames of every item of the history
\* (1511-1514): a render of a state whose history holds null throws, and
\* the effects of that render do not run.
RenderCompletes(st) == \A k \in 1..Len(st.history) : st.history[k] # JNull

\* The render React scheduled for a changed state, with its persist effect.
StartupRender ==
    /\ Mounted
    /\ RenderPending
    /\ RenderCompletes(state)
    /\ rendered' = RenderOf(state)
    /\ PersistEffect(state)
    /\ lastOp' = Request("render", TRUE, NoArgs)
    /\ UNCHANGED state

\* The load of every stored item explored, followed by the persist effect
\* of the first render and by the render of the adopted state.
NextLoad ==
    \/ LoadEffect
    \/ MountPersist
    \/ StartupRender

SpecLoad == InitLoad /\ [][NextLoad]_vars

StartupTsumo ==
    /\ Mounted
    /\ ~RenderPending
    /\ CanSettle
    /\ \E in \in NarrowTsumoInputs :
          handleTsumoConfirm(in.winner, in.hanInput, in.fuInput, in.riichi)
    /\ UNCHANGED <<rendered, stored>>

StartupDraw ==
    /\ Mounted
    /\ ~RenderPending
    /\ CanSettle
    /\ \E in \in NarrowDrawInputs : handleDrawConfirm(in.tenpai, in.riichi)
    /\ UNCHANGED <<rendered, stored>>

StartupUndo ==
    /\ Mounted
    /\ ~RenderPending
    /\ UndoButton
    /\ UNCHANGED <<rendered, stored>>

StartupRedo ==
    /\ Mounted
    /\ ~RenderPending
    /\ RedoButton
    /\ UNCHANGED <<rendered, stored>>

NextStartup ==
    \/ LoadEffect
    \/ MountPersist
    \/ StartupRender
    \/ StartupTsumo
    \/ StartupDraw
    \/ StartupUndo
    \/ StartupRedo

SpecStartup ==
    /\ InitStartup
    /\ [][NextStartup]_vars
    /\ WF_vars(LoadEffect)
    /\ WF_vars(MountPersist)
    /\ WF_vars(StartupRender)

-----------------------------------------------------------------------------
(* Ranking of the four stacks: App.tsx:234-257, tabulated *)

\* The comparator of entries.sort: higher score first, lower index first
\* among equal scores.
SortsBefore(points, a, b) ==
    IF points[b] # points[a] THEN points[b] - points[a] < 0 ELSE a - b < 0

RECURSIVE InsertEntry(_, _, _)
InsertEntry(points, sorted, index) ==
    IF sorted = <<>> THEN <<index>>
    ELSE IF SortsBefore(points, index, Head(sorted))
         THEN <<index>> \o sorted
         ELSE <<Head(sorted)>> \o InsertEntry(points, Tail(sorted), index)

RECURSIVE SortEntries(_, _, _)
\* entries after the sort: the seat indices in rank order.
SortEntries(points, sorted, index) ==
    IF index > 3 THEN sorted
    ELSE SortEntries(points, InsertEntry(points, sorted, index), index + 1)

RECURSIVE RankLoopDense(_, _, _, _, _, _)
\* Mutant of RankLoop: the rank after a tie is the next number (1, 1, 2).
RankLoopDense(points, entries, idx, ranks, hasLast, last) ==
    IF idx >= Len(entries) THEN ranks
    ELSE LET index == entries[idx + 1]
             score == points[index]
         IN  IF hasLast /\ score = last.score
             THEN RankLoopDense(points, entries, idx + 1,
                           [ranks EXCEPT ![index] = last.rank], hasLast, last)
             ELSE RankLoopDense(points, entries, idx + 1,
                           [ranks EXCEPT ![index] = last.rank + 1], TRUE,
                           [score |-> score, rank |-> last.rank + 1])

RECURSIVE RankLoop(_, _, _, _, _, _)
\* entries.forEach: hasLast is lastScore !== null, last holds lastScore and
\* lastRank.
RankLoop(points, entries, idx, ranks, hasLast, last) ==
    IF idx >= Len(entries) THEN ranks
    ELSE LET index == entries[idx + 1]
             score == points[index]
         IN  IF hasLast /\ score = last.score
             THEN RankLoop(points, entries, idx + 1,
                           [ranks EXCEPT ![index] = last.rank], hasLast, last)
             ELSE RankLoop(points, entries, idx + 1,
                           [ranks EXCEPT ![index] = idx + 1], TRUE,
                           [score |-> score, rank |-> idx + 1])

computePlayerRanks(points) ==
    RankLoop(points, SortEntries(points, <<>>, 0), 0,
             [i \in SeatIndex |-> 0], FALSE, [score |-> 0, rank |-> 0])

\* Stacks to rank: below zero, zero, and around the starting 25000.
RankScores == {-1000, 0, 24000, 25000, 26000}

InitRank ==
    /\ state = createInitialGameState
    /\ rendered = RenderOf(createInitialGameState)
    /\ stored = Stored("json", ToJson(createInitialGameState))
    /\ \E points \in [SeatIndex -> RankScores] :
          lastOp = Request("rank", FALSE, [points |-> points])

RankTable ==
    /\ lastOp.kind = "rank"
    /\ lastOp' = Request("computePlayerRanks", TRUE,
                    [points |-> lastOp.args.points,
                     result |-> computePlayerRanks(lastOp.args.points)])
    /\ UNCHANGED <<state, rendered, stored>>

NextRank == RankTable

SpecRank == InitRank /\ [][NextRank]_vars

-----------------------------------------------------------------------------
(* Properties.  A property of one operation is an action property: the      *)
(* unprimed state is the state the operation was applied to, lastOp' names  *)
(* the operation and its inputs.                                            *)

Sum4(f) == f[0] + f[1] + f[2] + f[3]

CountFlags(flags) == Cardinality({i \in SeatIndex : flags[i]})

\* The 1000-point stick of a seat flagged riichi.
Stick(flags, s) == IF flags[s] THEN 1000 ELSE 0

\* m = ceil(x / 100) * 100, stated without computing it.
IsCeilHundred(m, x) == m % 100 = 0 /\ m >= x /\ m < x + 100

Han(args) == parseInput(args.hanInput).value

Fu(args) == parseInput(args.fuInput).value

\* The step is an accepted confirmation of the given kind.
Accepted(kind) == lastOp'.kind = kind /\ lastOp'.accepted

\* What seat s paid for the hand itself in this step: its loss, less its own
\* riichi stick.
Paid(s) == state.points[s] - state'.points[s] - Stick(lastOp'.args.riichi, s)

\* What the winner w received for the hand itself in this step: its gain,
\* less the pool and this hand's sticks, its own stick added back.
Collected(w) ==
    state'.points[w] - state.points[w] + Stick(lastOp'.args.riichi, w)
        - state.kyotaku * 1000 - 1000 * CountFlags(lastOp'.args.riichi)

\* The state reached is the one an accepted confirmation of `kind` produced.
After(kind) ==
    lastOp.kind = kind /\ lastOp.accepted /\ state.lastSettlementBefore # Null

Before == state.lastSettlementBefore

\* C1: sum(points) + pool*1000 = 100000 in every state reachable by
\* settlements, undo, redo, manual round-edit, name-edit and reset.
C1_Conservation == Sum4(state.points) + state.kyotaku * 1000 = 100000

\* A discard-win that paid out a non-empty pool, then undone.
C1_Witness ==
    /\ lastOp.kind = "undo"
    /\ state.isInUndo
    /\ state.kyotaku > 0
    /\ state.lastSettlementMeta.type = "ron"
    /\ state.lastSettlementAfter.kyotaku = 0

\* The table of the scoring contract, first match wins.
TableBasePoints(han, fu) ==
    CASE han >= 13 -> 8000
      [] han >= 11 /\ han < 13 -> 6000
      [] han >= 8 /\ han < 11 -> 4000
      [] han >= 6 /\ han < 8 -> 3000
      [] han = 5 -> 2000
      [] han < 5 /\ ((han = 4 /\ fu = 30) \/ (han = 3 /\ fu = 60)) -> 2000
      [] OTHER -> IF fu * 2^(han + 2) < 2000 THEN fu * 2^(han + 2) ELSE 2000

\* C2: calcBasePoints(han, fu) equals the tiered table, for every han in
\* 1..MaxHan and fu in 1..MaxFu; with the four values the contract names.
C2_ScoreTable ==
    /\ lastOp.kind = "calcBasePoints" =>
          lastOp.args.result = TableBasePoints(lastOp.args.han, lastOp.args.fu)
    /\ calcBasePoints(4, 30) = 2000
    /\ calcBasePoints(3, 60) = 2000
    /\ calcBasePoints(13, 20) = 8000
    /\ calcBasePoints(6, 30) = 3000

C2_Witness ==
    /\ lastOp.kind = "calcBasePoints"
    /\ lastOp.args.han = 4
    /\ lastOp.args.fu = 30
    /\ lastOp.args.result = 2000

\* C3: self-draw by the dealer: each of the three other seats pays
\* ceil(2 * basePoints / 100) * 100 + honba * 100 with the honba before the
\* settlement, and the winner collects the sum of the three payments;
\* han 3, fu 40, honba 0: 2600 each, 7800 in all.
C3_DealerTsumo ==
    [][(Accepted("tsumo") /\ lastOp'.args.winner = state.dealerIndex) =>
        LET a == lastOp'.args
            w == a.winner
            base == calcBasePoints(Han(a), Fu(a))
            others == SeatIndex \ {w}
        IN  /\ \A s \in others :
                  IsCeilHundred(Paid(s) - Whole(state.honba * 100), 2 * base)
            /\ \A s, t \in others : Paid(s) = Paid(t)
            /\ \A s \in others : Collected(w) = 3 * Paid(s)
            /\ (Han(a) = 3 /\ Fu(a) = 40 /\ state.honba = Num(0)) =>
                  /\ \A s \in others : Paid(s) = 2600
                  /\ Collected(w) = 7800
    ]_vars

\* A dealer self-draw of 1 han 40 fu on honba 1: 700 + 100 from each.
C3_Witness ==
    /\ After("tsumo")
    /\ lastOp.args.winner = Before.dealerIndex
    /\ Before.honba = Num(1)
    /\ Han(lastOp.args) = 1
    /\ Fu(lastOp.args) = 40
    /\ \E s \in SeatIndex :
          ~lastOp.args.riichi[s] /\ state.points[s] = Before.points[s] - 800

\* C4: self-draw by a non-dealer: the dealer pays ceil(2 * basePoints / 100)
\* * 100 + honba * 100, each of the two other non-dealers pays
\* ceil(basePoints / 100) * 100 + honba * 100 (each rounded up on its own),
\* and the winner collects exactly the sum of the three payments.
C4_NonDealerTsumo ==
    [][(Accepted("tsumo") /\ lastOp'.args.winner # state.dealerIndex) =>
        LET a == lastOp'.args
            w == a.winner
            d == state.dealerIndex
            base == calcBasePoints(Han(a), Fu(a))
            others == SeatIndex \ {w, d}
        IN  /\ IsCeilHundred(Paid(d) - Whole(state.honba * 100), 2 * base)
            /\ \A s \in others :
                  IsCeilHundred(Paid(s) - Whole(state.honba * 100), base)
            /\ Cardinality(others) = 2
            /\ \A s, t \in others :
                  s # t => Collected(w) = Paid(d) + Paid(s) + Paid(t)
    ]_vars

\* A non-dealer self-draw of 1 han 30 fu (base 240) on honba 1: the dealer
\* pays 500 + 100 and not 2 * 300 + 100, the others 300 + 100.
C4_Witness ==
    /\ After("tsumo")
    /\ lastOp.args.winner # Before.dealerIndex
    /\ Before.honba = Num(1)
    /\ Han(lastOp.args) = 1
    /\ Fu(lastOp.args) = 30
    /\ lastOp.args.riichi = Flags({})
    /\ state.points[Before.dealerIndex] = Before.points[Before.dealerIndex] - 600
    /\ state.points[lastOp.args.winner]
          = Before.points[lastOp.args.winner] + 1400 + Before.kyotaku * 1000

\* C5: discard-win: the loser alone pays ceil(m * basePoints / 100) * 100 +
\* honba * 300, m = 6 for a dealer win and 4 otherwise; the two other seats
\* pay nothing for the hand; han 3, fu 40, honba 0: 7700 and 5200.
C5_Ron ==
    [][Accepted("ron") =>
        LET a == lastOp'.args
            w == a.winner
            l == a.loser
            m == IF w = state.dealerIndex THEN 6 ELSE 4
            base == calcBasePoints(Han(a), Fu(a))
        IN  /\ IsCeilHundred(Paid(l) - Whole(state.honba * 300), m * base)
            /\ \A s \in SeatIndex \ {w, l} : Paid(s) = 0
            /\ Collected(w) = Paid(l)
            /\ (Han(a) = 3 /\ Fu(a) = 40 /\ state.honba = Num(0)) =>
                  Paid(l) = IF w = state.dealerIndex THEN 7700 ELSE 5200
    ]_vars

\* A dealer discard-win of 3 han 40 fu on honba 1: 7700 + 300.
C5_Witness ==
    /\ After("ron")
    /\ lastOp.args.winner = Before.dealerIndex
    /\ Before.honba = Num(1)
    /\ Han(lastOp.args) = 3
    /\ Fu(lastOp.args) = 40
    /\ ~lastOp.args.riichi[lastOp.args.loser]
    /\ state.points[lastOp.args.loser] = Before.points[lastOp.args.loser] - 8000

\* The deltas of the hand alone, as previewed on an empty pool with no seat
\* flagged riichi.
HandAlone(kind, st, a) ==
    IF kind = "tsumo"
    THEN computeTsumoPreview([st EXCEPT !.kyotaku = 0], a.winner,
                             a.hanInput, a.fuInput, Flags({})).deltas
    ELSE computeRonPreview([st EXCEPT !.kyotaku = 0], a.winner, a.loser,
                           a.hanInput, a.fuInput, Flags({})).deltas

\* C6: for every accepted self-draw or discard-win: each seat flagged riichi
\* (the winner too) has 1000 subtracted from its delta, the hand payments
\* alone sum to zero, the winner also receives pool*1000 + 1000*riichiCount,
\* so sum(deltas) = pool*1000 (pool before), and the pool is 0 afterwards.
C6_RiichiAndPool ==
    [][(Accepted("tsumo") \/ Accepted("ron")) =>
        LET a == lastOp'.args
            w == a.winner
            delta == [s \in SeatIndex |-> state'.points[s] - state.points[s]]
            hand == HandAlone(lastOp'.kind, state, a)
            income == state.kyotaku * 1000 + 1000 * CountFlags(a.riichi)
        IN  /\ \A s \in SeatIndex :
                  delta[s] = hand[s] - Stick(a.riichi, s)
                                + (IF s = w THEN income ELSE 0)
            /\ Sum4(hand) = 0
            /\ Sum4(delta) = state.kyotaku * 1000
            /\ state'.kyotaku = 0
    ]_vars

\* A win on a pool of at least one stick by a winner who declared riichi,
\* with another declarer.
C6_Witness ==
    /\ (After("tsumo") \/ After("ron"))
    /\ Before.kyotaku >= 1
    /\ lastOp.args.riichi[lastOp.args.winner]
    /\ CountFlags(lastOp.args.riichi) >= 2
    /\ state.kyotaku = 0

\* The tenpai transfer of seat s with the tenpai flags t.
TenpaiTransfer(t, s) ==
    CASE CountFlags(t) = 1 -> IF t[s] THEN 3000 ELSE -1000
      [] CountFlags(t) = 2 -> IF t[s] THEN 1500 ELSE -1500
      [] CountFlags(t) = 3 -> IF t[s] THEN 1000 ELSE -3000
      [] OTHER -> 0

\* C7: exhaustive draw with k tenpai seats and no riichi flag: k = 1: the
\* tenpai seat +3000, the others -1000; k = 2: +1500 and -1500; k = 3: the
\* noten seat -3000, the others +1000; k = 0 and k = 4: no change; the
\* transfers sum to 0.
C7_DrawTransfers ==
    [][(Accepted("draw") /\ CountFlags(lastOp'.args.riichi) = 0) =>
        LET t == lastOp'.args.tenpai
            delta == [s \in SeatIndex |-> state'.points[s] - state.points[s]]
        IN  /\ \A s \in SeatIndex : delta[s] = TenpaiTransfer(t, s)
            /\ Sum4(delta) = 0
            /\ CountFlags(t) \in {0, 4} => state'.points = state.points
    ]_vars

\* A draw with three tenpai seats and no riichi.
C7_Witness ==
    /\ After("draw")
    /\ CountFlags(lastOp.args.riichi) = 0
    /\ CountFlags(lastOp.args.tenpai) = 3
    /\ \E s \in SeatIndex : state.points[s] = Before.points[s] - 3000

\* C8: an exhaustive draw never pays the pool out: the pool afterwards is
\* the pool before plus the number of seats flagged riichi, each declarer's
\* delta is 1000 below its tenpai transfer, no delta holds pool or stick
\* income, and the preview's pool-income field is 0.
C8_DrawKeepsPool ==
    [][Accepted("draw") =>
        LET t == lastOp'.args.tenpai
            r == lastOp'.args.riichi
            delta == [s \in SeatIndex |-> state'.points[s] - state.points[s]]
        IN  /\ state'.kyotaku = state.kyotaku + CountFlags(r)
            /\ \A s \in SeatIndex :
                  delta[s] = TenpaiTransfer(t, s) - Stick(r, s)
            /\ Sum4(delta) = 0 - 1000 * CountFlags(r)
            /\ computeDrawPreview(state, t, r).kyotakuIncome = 0
            /\ computeDrawPreview(state, t, r).kyotakuAfter = state'.kyotaku
    ]_vars

\* A draw on a non-empty pool with two declarers, one of them tenpai.
C8_Witness ==
    /\ After("draw")
    /\ Before.kyotaku >= 1
    /\ CountFlags(lastOp.args.riichi) = 2
    /\ state.kyotaku = Before.kyotaku + 2
    /\ \E s \in SeatIndex : lastOp.args.riichi[s] /\ lastOp.args.tenpai[s]

\* C9: after a confirmed self-draw or discard-win by the current dealer:
\* dealerIndex and kyokuIndex are unchanged, honba is the honba before + 1,
\* and the pool is 0.
C9_DealerWinKeepsRound ==
    [][((Accepted("tsumo") \/ Accepted("ron"))
            /\ lastOp'.args.winner = state.dealerIndex) =>
        /\ state'.dealerIndex = state.dealerIndex
        /\ state'.kyokuIndex = state.kyokuIndex
        /\ state'.honba = state.honba + Num(1)
        /\ state'.kyotaku = 0
    ]_vars

\* A dealer win in South 4 on honba 2: the round stays, honba becomes 3.
C9_Witness ==
    /\ (After("tsumo") \/ After("ron"))
    /\ lastOp.args.winner = Before.dealerIndex
    /\ Before.kyokuIndex = Num(7)
    /\ Before.honba = Num(2)
    /\ state.honba = Num(3)
    /\ state.kyokuIndex = Num(7)

\* C10: after a confirmed self-draw or discard-win by a seat that is not the
\* dealer: dealerIndex becomes (dealerIndex + 1) mod 4, kyokuIndex becomes
\* (kyokuIndex + 1) mod 8, honba becomes 0 and the pool is 0.
C10_NonDealerWinRotates ==
    [][((Accepted("tsumo") \/ Accepted("ron"))
            /\ lastOp'.args.winner # state.dealerIndex) =>
        /\ state'.dealerIndex = (state.dealerIndex + 1) % 4
        /\ state'.kyokuIndex = (state.kyokuIndex + Num(1)) % Num(8)
        /\ state'.honba = Num(0)
        /\ state'.kyotaku = 0
    ]_vars

\* A non-dealer win in South 4 with dealer seat 3: both wrap to 0.
C10_Witness ==
    /\ (After("tsumo") \/ After("ron"))
    /\ lastOp.args.winner # Before.dealerIndex
    /\ Before.kyokuIndex = Num(7)
    /\ Before.dealerIndex = 3
    /\ Before.honba > Num(0)
    /\ state.kyokuIndex = Num(0)
    /\ state.dealerIndex = 0
    /\ state.honba = Num(0)

\* C11: after a confirmed exhaustive draw honba is the honba before + 1;
\* dealerIndex and kyokuIndex are unchanged if the dealer's seat was flagged
\* tenpai, and otherwise dealerIndex becomes (dealerIndex + 1) mod 4 and
\* kyokuIndex becomes (kyokuIndex + 1) mod 8.
C11_DrawProgression ==
    [][Accepted("draw") =>
        /\ state'.honba = state.honba + Num(1)
        /\ IF lastOp'.args.tenpai[state.dealerIndex]
           THEN /\ state'.dealerIndex = state.dealerIndex
                /\ state'.kyokuIndex = state.kyokuIndex
           ELSE /\ state'.dealerIndex = (state.dealerIndex + 1) % 4
                /\ state'.kyokuIndex = (state.kyokuIndex + Num(1)) % Num(8)
    ]_vars

\* A draw in South 4 with dealer seat 3 noten while other seats are tenpai:
\* both indices wrap to 0 and honba 2 becomes 3.
C11_Witness ==
    /\ After("draw")
    /\ Before.kyokuIndex = Num(7)
    /\ Before.dealerIndex = 3
    /\ Before.honba = Num(2)
    /\ ~lastOp.args.tenpai[3]
    /\ CountFlags(lastOp.args.tenpai) = 2
    /\ state.kyokuIndex = Num(0)
    /\ state.dealerIndex = 0
    /\ state.honba = Num(3)

\* The settlement of the last step moved the dealer on.
Advanced ==
    \/ (After("tsumo") \/ After("ron")) /\ lastOp.args.winner # Before.dealerIndex
    \/ After("draw") /\ ~lastOp.args.tenpai[Before.dealerIndex]

\* The state a confirmation produces from st commits a settlement of the
\* kind: one more history entry, a pending pair whose after-state it is.
Commits(st, next, kind) ==
    /\ Len(next.history) = Len(st.history) + 1
    /\ next.lastSettlementMeta.type = kind
    /\ next.lastSettlementAfter = createCoreSnapshotFromState(next)
    /\ ~next.isInUndo

\* A confirmation with valid inputs (3 han 40 fu) made in this state commits.
CanConfirmTsumo(w) ==
    Commits(state, TsumoUpdater(state, rendered, w, 3, 40, Flags({})), "tsumo")

CanConfirmRon(w, l) ==
    Commits(state, RonUpdater(state, rendered, w, l, 3, 40, Flags({})), "ron")

CanConfirmDraw(t) ==
    Commits(state, DrawUpdater(state, rendered, t, Flags({})), "draw")

\* C12: round progression has no terminal state: an advancing settlement
\* from kyokuIndex 7 yields kyokuIndex 0; eight consecutive advancing
\* settlements from (dealer 0, round 0) return to dealer 0 and round 0 (after
\* n of them the round is n mod 8 and the dealer n mod 4); and in every
\* state reached, whatever the stacks, each kind of settlement with valid
\* inputs still commits (every winner, with the dealer tenpai and noten).
C12_NoTerminalState ==
    /\ (Advanced /\ Before.kyokuIndex = Num(7)) => state.kyokuIndex = Num(0)
    /\ state.kyokuIndex = Num(Len(state.history) % 8)
    /\ state.dealerIndex = Len(state.history) % 4
    /\ Len(state.history) = 8 => (state.dealerIndex = 0 /\ state.kyokuIndex = Num(0))
    /\ \A w \in SeatIndex : CanConfirmTsumo(w)
    /\ \A w \in SeatIndex : CanConfirmRon(w, ensureSeatIndex(w + 1))
    /\ \A t \in {{}, {state.dealerIndex}, SeatIndex \ {state.dealerIndex},
                 SeatIndex} : CanConfirmDraw(Flags(t))

\* The eighth advancing settlement in a row, from South 4 with dealer seat 3,
\* back to East 1 with dealer seat 0, a stack being below zero.
C12_Witness ==
    /\ Advanced
    /\ Len(state.history) = 8
    /\ Before.kyokuIndex = Num(7)
    /\ Before.dealerIndex = 3
    /\ state.kyokuIndex = Num(0)
    /\ state.dealerIndex = 0
    /\ \E s \in SeatIndex : state.points[s] < 0

\* Every character of s is in the set cs.
AllIn(s, cs) == \A k \in 1..Len(s) : s[k] \in cs

\* The prefix of s before the first occurrence of c.
UpTo(s, c) ==
    LET stop == CHOOSE k \in 1..(Len(s) + 1) :
                    /\ k = Len(s) + 1 \/ s[k] = c
                    /\ \A j \in 1..(k - 1) : s[j] # c
    IN  SubSeq(s, 1, stop - 1)

\* The text denotes a positive integer: digits, not all zero, with an
\* optional "+" and an optional fraction of zeros, blanks around ignored.
DenotesPositiveInteger(str) ==
    LET t == Trim(str)
        u == IF t # <<>> /\ Head(t) = "+" THEN Tail(t) ELSE t
        whole == UpTo(u, ".")
        rest == SubSeq(u, Len(whole) + 1, Len(u))
    IN  /\ whole # <<>>
        /\ AllIn(whole, {Digits[d] : d \in 1..10})
        /\ ~AllIn(whole, {"0"})
        /\ rest = <<>> \/ (Head(rest) = "." /\ AllIn(Tail(rest), {"0"}))

\* The inputs of a win that the contract declares invalid.
InvalidWinInputs(kind, a) ==
    \/ a.winner = NullSeat
    \/ ~DenotesPositiveInteger(a.hanInput)
    \/ ~DenotesPositiveInteger(a.fuInput)
    \/ kind = "ron" /\ (a.loser = NullSeat \/ a.loser = a.winner)

\* C13: a self-draw or discard-win confirmation is rejected, with the whole
\* state unchanged, whenever the winner is unspecified, han or fu is not a
\* positive integer, or (discard-win) the loser is unspecified or equals the
\* winner.
C13_InvalidRejected ==
    [][(lastOp'.kind \in {"tsumo", "ron"}
            /\ InvalidWinInputs(lastOp'.kind, lastOp'.args)) =>
        (~lastOp'.accepted /\ state' = state)
    ]_vars

\* C14: an exhaustive draw never fails: for every combination of the four
\* tenpai flags and the four riichi flags, all false included, the preview
\* is produced and the confirmation commits: the history grows by one entry
\* and honba by one.
C14_DrawNeverFails ==
    [][lastOp'.kind = "draw" =>
        LET t == lastOp'.args.tenpai
            r == lastOp'.args.riichi
            preview == computeDrawPreview(state, t, r)
        IN  /\ preview # Null
            /\ preview.kyotakuBefore = state.kyotaku
            /\ lastOp'.accepted
            /\ Len(state'.history) = Len(state.history) + 1
            /\ state'.history[1].type = "draw"
            /\ state'.honba = state.honba + Num(1)
    ]_vars

\* A draw with no flag set at all, committed: no point moves, one entry more.
C14_Witness ==
    /\ After("draw")
    /\ CountFlags(lastOp.args.tenpai) = 0
    /\ CountFlags(lastOp.args.riichi) = 0
    /\ Len(state.history) = Len(Before.history) + 1
    /\ state.honba = Before.honba + Num(1)
    /\ state.points = Before.points

\* The preview the dialog of the given kind shows for the inputs a on st.
PreviewOf(kind, st, a) ==
    CASE kind = "tsumo" ->
            computeTsumoPreview(st, a.winner, a.hanInput, a.fuInput, a.riichi)
      [] kind = "ron" ->
            computeRonPreview(st, a.winner, a.loser, a.hanInput, a.fuInput,
                              a.riichi)
      [] OTHER -> computeDrawPreview(st, a.tenpai, a.riichi)

\* C15: preview and applied result never diverge: for every settlement
\* request, the preview computed on the state it is made in is absent
\* exactly when the confirmation is rejected; otherwise the preview's deltas
\* are the point changes the confirmation applies and its pool-after is the
\* pool the confirmation leaves.
C15_PreviewMatchesApplied ==
    [][lastOp'.kind \in {"tsumo", "ron", "draw"} =>
        LET preview == PreviewOf(lastOp'.kind, state, lastOp'.args)
        IN  /\ (preview = Null) <=> ~lastOp'.accepted
            /\ lastOp'.accepted =>
                  /\ \A s \in SeatIndex :
                        state'.points[s] = state.points[s] + preview.deltas[s]
                  /\ state'.kyotaku = preview.kyotakuAfter
                  /\ preview.kyotakuBefore = state.kyotaku
    ]_vars

\* A discard-win on a non-empty pool with a riichi declarer: the preview on
\* the state before it shows the points that were applied.
C15_Witness ==
    /\ After("ron")
    /\ Before.kyotaku >= 1
    /\ Before.honba >= Num(1)
    /\ CountFlags(lastOp.args.riichi) >= 1
    /\ LET preview == PreviewOf("ron", Before, lastOp.args)
       IN  /\ preview # Null
           /\ preview.deltas[lastOp.args.winner] > 0
           /\ \A s \in SeatIndex :
                 state.points[s] = Before.points[s] + preview.deltas[s]

\* The seven fields of the match (what a snapshot holds).
Core(st) == createCoreSnapshotFromState(st)

\* The step is an accepted confirmation of any kind.
Settled == Accepted("tsumo") \/ Accepted("ron") \/ Accepted("draw")

\* The step leaves the pending pair as it is.
PairKept ==
    /\ state'.lastSettlementBefore = state.lastSettlementBefore
    /\ state'.lastSettlementAfter = state.lastSettlementAfter
    /\ state'.lastSettlementMeta = state.lastSettlementMeta

\* C16: undo after a confirmed settlement makes points, pool, honba,
\* kyokuIndex, dealerIndex, history and names equal to their values
\* immediately before that settlement, and a following redo makes them equal
\* to their values immediately after it.  Step by step: a confirmation
\* records the seven fields as they were before and as they are after it;
\* no undo, redo or edit alters that record; undo, while it is available,
\* sets the seven fields to the recorded before-values and redo, after an
\* undo, to the recorded after-values.
C16_UndoRedoRestore ==
    [][/\ Settled =>
            /\ state'.lastSettlementBefore = Core(state)
            /\ state'.lastSettlementAfter = Core(state')
       /\ lastOp'.kind \in {"undo", "redo", "editRound", "editNames"} => PairKept
       /\ (lastOp'.kind = "undo" /\ canUndo(state)) =>
            Core(state') = state.lastSettlementBefore
       /\ (lastOp'.kind = "redo" /\ canRedo(state)) =>
            Core(state') = state.lastSettlementAfter
    ]_vars

\* A settlement undone and then redone: the match is as the settlement left
\* it, one entry above the history it started from.
C16_Witness ==
    /\ lastOp.kind = "redo"
    /\ lastOp.args.enabled
    /\ ~state.isInUndo
    /\ Core(state) = state.lastSettlementAfter
    /\ Tail(state.history) = Before.history
    /\ state.points # Before.points

\* C17: undo and redo requested when no transition is pending (initial
\* state, after a reset) leave the entire state unchanged and raise no
\* error: in every state with nothing pending the updater of undo and the
\* updater of redo return the state they are given, and a request made
\* through either button leaves the state as it is.
C17_NothingPending ==
    [][~hasLastSettlement(state) =>
          /\ UndoUpdater(state) = state
          /\ RedoUpdater(state) = state
          /\ lastOp'.kind \in {"undo", "redo"} => state' = state
    ]_vars

\* The state a reset that kept edited names has left after a settlement:
\* nothing is pending, and the two updaters return it as it is.
C17_Witness ==
    /\ lastOp.kind = "reset"
    /\ ~hasLastSettlement(state)
    /\ state.names # createDefaultNames
    /\ state = [createInitialGameState EXCEPT !.names = state.names]
    /\ UndoUpdater(state) = state
    /\ RedoUpdater(state) = state

\* C18: once undo has been performed the controller is undone and undo is
\* unavailable: a further undo request before a redo or a new settlement
\* changes nothing in the state, also when a round-edit or name-edit was
\* made in between; and redo changes the state only while the controller
\* is undone.
C18_UndoneBlocksUndo ==
    [][/\ (lastOp'.kind = "undo" /\ hasLastSettlement(state)) =>
            (state'.isInUndo /\ ~canUndo(state') /\ canRedo(state'))
       /\ (lastOp'.kind = "undo" /\ hasLastSettlement(state) /\ state.isInUndo) =>
            state' = state
       /\ (lastOp'.kind = "redo" /\ state' # state) => state.isInUndo
    ]_vars

\* A settlement undone, the round edited, and undo clicked again: the button
\* is disabled, the edit stands and the match is still undone.
C18_Witness ==
    /\ lastOp.kind = "undo"
    /\ ~lastOp.args.enabled
    /\ hasLastSettlement(state)
    /\ state.isInUndo
    /\ canRedo(state)
    /\ state.kyokuIndex # state.lastSettlementBefore.kyokuIndex
    /\ state.honba # state.lastSettlementBefore.honba
    /\ state.dealerIndex # state.lastSettlementBefore.dealerIndex
    /\ state.points = state.lastSettlementBefore.points

\* C19: undo is single-step: a confirmation replaces the pending pair by
\* (the match just before it, the match just after it) and clears the undone
\* flag; undo and redo keep the pair and either change nothing or restore
\* one of its two halves, so that after two settlements the match before
\* the first is not reached;
\* and a settlement confirmed after an undo leaves the undone one neither
\* redoable nor in the history (the new entry sits on the history from
\* before the undone settlement).
C19_SingleStepUndo ==
    [][/\ Settled =>
            /\ state'.lastSettlementBefore = Core(state)
            /\ state'.lastSettlementAfter = Core(state')
            /\ state'.lastSettlementMeta.type = lastOp'.kind
            /\ ~state'.isInUndo
       /\ (Settled /\ canRedo(state)) =>
            /\ ~canRedo(state')
            /\ Tail(state'.history) = state.lastSettlementBefore.history
            /\ Len(state'.history) = Len(state.lastSettlementAfter.history)
       /\ (lastOp'.kind \in {"undo", "redo"} /\ hasLastSettlement(state)) =>
            /\ PairKept
            /\ Core(state') \in {Core(state), state.lastSettlementBefore,
                                 state.lastSettlementAfter}
       /\ hasLastSettlement(state) =>
            /\ state.history \in {state.lastSettlementBefore.history,
                                  state.lastSettlementAfter.history}
            /\ Tail(state.lastSettlementAfter.history)
                  = state.lastSettlementBefore.history
    ]_vars

\* Two settlements, then undo: the history holds the first entry, which no
\* further undo or redo removes.
C19_Witness ==
    /\ lastOp.kind = "undo"
    /\ lastOp.args.enabled
    /\ state.isInUndo
    /\ Len(state.lastSettlementAfter.history) = 2
    /\ Len(state.history) = 1
    /\ state.history = Before.history

\* C20: every confirmed settlement prepends exactly one entry to history:
\* afterwards history[0] is the new entry, of the kind confirmed, and the
\* remainder is the previous history in the same order.
C20_Prepends ==
    [][Settled =>
        /\ Len(state'.history) = Len(state.history) + 1
        /\ Head(state'.history).type = lastOp'.kind
        /\ Tail(state'.history) = state.history
    ]_vars

\* A second settlement of another kind than the first: its entry is first.
C20_Witness ==
    /\ (After("tsumo") \/ After("ron") \/ After("draw"))
    /\ Len(state.history) = 2
    /\ state.history[1].type = lastOp.kind
    /\ state.history[2].type # lastOp.kind
    /\ Tail(state.history) = Before.history

\* The ledger new holds every entry of old, unchanged and in the same
\* places counted from the oldest: old is the tail end of new.
KeepsEntries(old, new) ==
    /\ Len(new) >= Len(old)
    /\ SubSeq(new, Len(new) - Len(old) + 1, Len(new)) = old

\* C21 as claimed: across settlement, undo, redo, round-edit and name-edit
\* the history never loses an entry and no existing entry changes.
C21_NeverRemoved ==
    [][lastOp'.kind \in {"tsumo", "ron", "draw", "undo", "redo",
                         "editRound", "editNames"} =>
        KeepsEntries(state.history, state'.history)
    ]_vars

\* C21, amended: across settlement, redo, round-edit and name-edit the
\* history never loses an entry and no existing entry changes; undo removes
\* at most the newest entry (that of the settlement it undoes) and leaves
\* every older entry unchanged; a reset alone empties the ledger.
C21_OnlyUndoRemovesNewest ==
    [][/\ lastOp'.kind \in {"tsumo", "ron", "draw", "redo",
                            "editRound", "editNames"} =>
            KeepsEntries(state.history, state'.history)
       /\ lastOp'.kind = "undo" =>
            /\ \/ state'.history = state.history
               \/ state.history # <<>> /\ state'.history = Tail(state.history)
            /\ state'.history # state.history =>
                  (canUndo(state) /\ state'.history = Before.history)
       /\ lastOp'.kind = "reset" => state'.history = <<>>
    ]_vars

\* The second of two settlements undone: its entry is gone, the first entry
\* is where it was.
C21_Witness ==
    /\ lastOp.kind = "undo"
    /\ state.isInUndo
    /\ Len(state.history) = 1
    /\ Len(state.lastSettlementAfter.history) = 2
    /\ state.history[1] = state.lastSettlementAfter.history[2]

\* C22: the name snapshot and the per-seat deltas of an entry are copied at
\* settlement time (the names, the dealer's name and the declarers' names as
\* they are then, the deltas the settlement applies), and a name-edit made
\* afterwards changes the names of the live state but leaves playerNames,
\* riichiPlayers, dealerLabel and deltas of every existing entry unchanged.
C22_EntrySnapshotsKept ==
    [][/\ Settled =>
            LET entry == Head(state'.history)
                riichi == lastOp'.args.riichi
            IN  /\ entry.playerNames = state.names
                /\ entry.dealerLabel = state.names[state.dealerIndex]
                /\ Len(entry.riichiPlayers) = CountFlags(riichi)
                /\ \A k \in 1..Len(entry.riichiPlayers) :
                      \E i \in SeatIndex :
                         riichi[i] /\ entry.riichiPlayers[k] = state.names[i]
                /\ \A i \in SeatIndex :
                      entry.deltas[i] = state'.points[i] - state.points[i]
       /\ lastOp'.kind = "editNames" =>
            /\ Len(state'.history) = Len(state.history)
            /\ \A k \in 1..Len(state.history) :
                  /\ state'.history[k].playerNames = state.history[k].playerNames
                  /\ state'.history[k].riichiPlayers = state.history[k].riichiPlayers
                  /\ state'.history[k].dealerLabel = state.history[k].dealerLabel
                  /\ state'.history[k].deltas = state.history[k].deltas
    ]_vars

\* A name-edit after a settlement with a riichi declarer: the live names are
\* the edited ones, the entry still shows the names of its time.
C22_Witness ==
    /\ lastOp.kind = "editNames"
    /\ Len(state.history) >= 1
    /\ state.names # createDefaultNames
    /\ state.history[1].playerNames = createDefaultNames
    /\ state.history[1].dealerLabel \in {createDefaultNames[i] : i \in SeatIndex}
    /\ Len(state.history[1].riichiPlayers) >= 1
    /\ state.history[1].riichiPlayers[1] \notin {state.names[i] : i \in SeatIndex}

\* C23: a manual round-edit changes only honba (to max(0, requested)),
\* kyokuIndex (number - 1 for East, number + 3 for South) and dealerIndex;
\* points, pool, history, names, the pending pair and the undone flag are
\* left as they were.
C23_RoundEditFrame ==
    [][lastOp'.kind = "editRound" =>
        LET a == lastOp'.args IN
        /\ state'.honba = IF a.editHonba >= Num(0) THEN a.editHonba ELSE Num(0)
        /\ a.editWind = "East" => state'.kyokuIndex = a.editNumber - Num(1)
        /\ a.editWind = "South" => state'.kyokuIndex = a.editNumber + Num(3)
        /\ state'.dealerIndex = a.editDealer
        /\ state'.points = state.points
        /\ state'.kyotaku = state.kyotaku
        /\ state'.history = state.history
        /\ state'.names = state.names
        /\ PairKept
        /\ state'.isInUndo = state.isInUndo
    ]_vars

\* A round-edit to East 3, honba 2, dealer 1 made while a draw that left a
\* stick in the pool is undone: the pair is still there to redo.
C23_Witness ==
    /\ lastOp.kind = "editRound"
    /\ lastOp.args.editWind = "East"
    /\ lastOp.args.editNumber = Num(3)
    /\ state.kyokuIndex = Num(2)
    /\ state.honba = Num(2)
    /\ state.dealerIndex = 1
    /\ state.isInUndo
    /\ canRedo(state)
    /\ state.lastSettlementAfter.kyotaku >= 1

\* t is s without its leading and trailing whitespace: s is blanks, then t,
\* then blanks, and t neither starts nor ends with a blank.
IsTrimOf(t, s) ==
    /\ t # <<>>
    /\ ~IsWhitespace(t[1])
    /\ ~IsWhitespace(t[Len(t)])
    /\ Len(t) <= Len(s)
    /\ \E a \in 0..(Len(s) - Len(t)) :
          /\ SubSeq(s, a + 1, a + Len(t)) = t
          /\ \A k \in 1..a : IsWhitespace(s[k])
          /\ \A k \in (a + Len(t) + 1)..Len(s) : IsWhitespace(s[k])

IsBlank(s) == \A k \in 1..Len(s) : IsWhitespace(s[k])

\* C29: a name-edit stores, seat by seat, the trimmed text when the value
\* is a string that is not blank, and that seat's default label otherwise;
\* an input that is not a 4-element array yields the four default labels.
C29_NamesSanitized ==
    [][lastOp'.kind = "editNames" =>
        LET input == lastOp'.args.editNames IN
        IF input.isArray /\ Len(input.items) = 4
        THEN \A seat \in SeatIndex :
                LET value == input.items[seat + 1] IN
                IF value.isString /\ ~IsBlank(value.chars)
                THEN IsTrimOf(state'.names[seat], value.chars)
                ELSE state'.names[seat] = PLAYER_LABELS[seat]
        ELSE state'.names = createDefaultNames
    ]_vars

\* Four fields at once: a padded name, a non-string, white space only (a
\* carriage return and a no-break space) and a name with a blank inside and
\* a tab, a form feed, a no-break space and a line feed around it.
C29_Witness ==
    /\ lastOp.kind = "editNames"
    /\ lastOp.args.editNames.isArray
    /\ lastOp.args.editNames.items =
          << JsString(<<" ", "A", "l", " ">>), NotAString,
             JsString(<<"\r", " ">>),
             JsString(<<"\t", "\f", "C", " ", "d", " ", "\n">>) >>
    /\ state.names[0] = <<"A", "l">>
    /\ state.names[1] = PLAYER_LABELS[1]
    /\ state.names[2] = PLAYER_LABELS[2]
    /\ state.names[3] = <<"C", " ", "d">>

\* C24: a reset yields 25000 points for each seat, pool 0, honba 0,
\* kyokuIndex 0, dealerIndex 0, an empty history and no pending pair; the
\* names are kept unless the reset-names flag is set, and then they are the
\* four default labels; with no pending pair an undo or a redo changes
\* nothing, so neither brings back a state from before the reset.
C24_ResetStartsAfresh ==
    [][ /\ lastOp'.kind = "reset" =>
            /\ \A seat \in SeatIndex : state'.points[seat] = 25000
            /\ state'.kyotaku = 0
            /\ state'.honba = Num(0)
            /\ state'.kyokuIndex = Num(0)
            /\ state'.dealerIndex = 0
            /\ state'.history = <<>>
            /\ state'.lastSettlementBefore = Null
            /\ state'.lastSettlementAfter = Null
            /\ state'.lastSettlementMeta = Null
            /\ ~state'.isInUndo
            /\ state'.names = IF lastOp'.args.resetNames
                              THEN PLAYER_LABELS
                              ELSE state.names
        /\ (lastOp.kind = "reset" /\ lastOp'.kind \in {"undo", "redo"}) =>
            state' = state
    ]_vars

\* A reset that kept the edited names.
C24_Witness ==
    /\ lastOp.kind = "reset"
    /\ ~lastOp.args.resetNames
    /\ state.names # PLAYER_LABELS
    /\ state.history = <<>>
    /\ state.lastSettlementBefore = Null
    /\ \A seat \in SeatIndex : state.points[seat] = 25000

\* C27: in every state reached by settlements, undo, redo, round-edit,
\* name-edit and reset, kyokuIndex is in 0..7, dealerIndex is in 0..3,
\* honba >= 0 and kyotaku >= 0.
C27_RangesHold ==
    /\ state.kyokuIndex \in {Num(k) : k \in 0..7}
    /\ state.dealerIndex \in 0..3
    /\ state.honba >= Num(0)
    /\ state.kyotaku >= 0

\* C25: on load, for every numeric persisted dealerIndex (negative values
\* and values above 3 included) the dealerIndex of the loaded state is in
\* 0..3.
C25_LoadedDealerInRange ==
    lastOp.kind = "load" => state.dealerIndex \in 0..3

\* The document the specification accepts: points is an array of four
\* numbers, and honba, kyokuIndex and dealerIndex are numbers.
ValidDocument(parsed) ==
    /\ parsed.type = "object"
    /\ Field(parsed, "points").type = "array"
    /\ Len(Field(parsed, "points").items) = 4
    /\ \A k \in 1..4 : Field(parsed, "points").items[k].type = "number"
    /\ Field(parsed, "honba").type = "number"
    /\ Field(parsed, "kyokuIndex").type = "number"
    /\ Field(parsed, "dealerIndex").type = "number"

\* C26: a persisted document is adopted only if points is a 4-element
\* numeric array and honba, kyokuIndex and dealerIndex are numbers;
\* otherwise the state stays at the initial defaults; and in an adopted
\* document a history that is missing or not an array loads as the empty
\* history, names that are missing or not four strings load with the
\* default label in each such place, and an undo field that is missing or
\* not of its type (an object for the three snapshots, a boolean for the
\* flag) loads as null / false.
C26_LoadValidates ==
    lastOp.kind = "load" =>
        LET item == lastOp.args.stored
            doc == item.parsed
            valid == item.raw = "json" /\ ValidDocument(doc)
            snapshotOr(v, loaded) == v.type # "object" => loaded = Null
        IN  /\ lastOp.accepted => valid
            /\ ~valid => state = createInitialGameState
            /\ lastOp.accepted =>
                /\ Field(doc, "history").type # "array" => state.history = <<>>
                /\ ~(Field(doc, "names").type = "array"
                     /\ Len(Field(doc, "names").items) = 4)
                        => state.names = createDefaultNames
                /\ (Field(doc, "names").type = "array"
                     /\ Len(Field(doc, "names").items) = 4)
                        => \A seat \in SeatIndex :
                              Field(doc, "names").items[seat + 1].type # "string"
                                  => state.names[seat] = PLAYER_LABELS[seat]
                /\ snapshotOr(Field(doc, "lastSettlementBefore"),
                              state.lastSettlementBefore)
                /\ snapshotOr(Field(doc, "lastSettlementAfter"),
                              state.lastSettlementAfter)
                /\ snapshotOr(Field(doc, "lastSettlementMeta"),
                              state.lastSettlementMeta)
                /\ Field(doc, "isInUndo").type # "boolean"
                        => state.isInUndo = FALSE

\* What the load effect does check (not a claim of its own): the gate is
\* the specification's but for the type of the four points.
LoadGateIsValidButForPointTypes ==
    lastOp.kind = "load" =>
        LET doc == lastOp.args.stored.parsed IN
        /\ lastOp.accepted =>
              /\ Field(doc, "points").type = "array"
              /\ Len(Field(doc, "points").items) = 4
              /\ Field(doc, "honba").type = "number"
              /\ Field(doc, "kyokuIndex").type = "number"
              /\ Field(doc, "dealerIndex").type = "number"
              /\ state.dealerIndex \in -3..3
        /\ ~lastOp.accepted => state = createInitialGameState
        /\ (lastOp.args.stored.raw = "json" /\ ValidDocument(doc))
              => lastOp.accepted

\* C28: a confirmation is atomic and serialized.  Every accepted
\* confirmation, also one issued before the view was rendered again, is one
\* step from the current state: the points change by the deltas computed on
\* that state, and in the same step the pool, honba, kyokuIndex, dealerIndex
\* and history take their values for that state (a retained dealer: honba +
\* 1, same round; otherwise next round and dealer, honba 0 after a win and
\* honba + 1 after a draw; one entry more in front of the history), the
\* pending pair is (that state, the new state), and points plus pool sticks
\* are conserved.  A rejected confirmation changes nothing.
C28_AtomicSerialized ==
    [][ /\ Settled =>
            LET kind == lastOp'.kind
                a == lastOp'.args
                preview == PreviewOf(kind, state, a)
                retained == IF kind = "draw"
                            THEN a.tenpai[state.dealerIndex]
                            ELSE a.winner = state.dealerIndex
            IN  /\ \A s \in SeatIndex :
                      state'.points[s] = state.points[s] + preview.deltas[s]
                /\ state'.kyotaku = preview.kyotakuAfter
                /\ state'.honba = IF retained \/ kind = "draw"
                                  THEN state.honba + Num(1)
                                  ELSE 0
                /\ state'.kyokuIndex = IF retained
                                       THEN state.kyokuIndex
                                       ELSE (state.kyokuIndex + Num(1)) % Num(8)
                /\ state'.dealerIndex = IF retained
                                        THEN state.dealerIndex
                                        ELSE (state.dealerIndex + 1) % 4
                /\ Len(state'.history) = Len(state.history) + 1
                /\ Tail(state'.history) = state.history
                /\ Head(state'.history).deltas = preview.deltas
                /\ state'.lastSettlementBefore = Core(state)
                /\ state'.lastSettlementAfter = Core(state')
                /\ Sum4(state'.points) + state'.kyotaku * 1000
                      = Sum4(state.points) + state.kyotaku * 1000
        /\ (lastOp'.kind \in {"tsumo", "ron", "draw"} /\ ~lastOp'.accepted) =>
              state' = state
    ]_vars

\* Two confirmations with no render in between, a draw with a riichi stick
\* after one that moved the dealer: both are in the history and the second
\* started from the state the first produced.
C28_Witness ==
    /\ After("draw")
    /\ rendered.historyLength = 0
    /\ Len(state.history) = 2
    /\ Before.history = Tail(state.history)
    /\ Before.kyokuIndex = Num(1)
    /\ Before.dealerIndex = 1
    /\ state.honba = Num(2)
    /\ state.kyotaku >= 1
    /\ Sum4(state.points) + state.kyotaku * 1000 = 100000

\* C30: the round label and the dealer name recorded in a history entry are
\* those of the state the settlement was applied to, also when the
\* confirmation is issued before the view was rendered again.
C30_EntryLabelsOfAppliedState ==
    [][Settled =>
        /\ Head(state'.history).roundLabel
              = getRoundInfo(state.kyokuIndex, state.honba).label
        /\ Head(state'.history).dealerLabel = state.names[state.dealerIndex]
    ]_vars

\* C31: for every confirmed settlement the new history entry's deltas are,
\* seat by seat, the points after minus the points before that settlement,
\* and its riichi count is the number of seats flagged riichi for the hand.
C31_EntryRecordsTransfer ==
    [][Settled =>
        LET entry == Head(state'.history) IN
        /\ \A seat \in SeatIndex :
              entry.deltas[seat] = state'.points[seat] - state.points[seat]
        /\ entry.riichiCount = CountFlags(lastOp'.args.riichi)
        /\ entry.type = lastOp'.kind
    ]_vars

\* A discard-win with two riichi declarers that took a seat below zero: the
\* entry shows the whole loss.
C31_Witness ==
    /\ After("ron")
    /\ CountFlags(lastOp.args.riichi) = 2
    /\ Head(state.history).riichiCount = 2
    /\ state.points[lastOp.args.loser] < 0
    /\ Head(state.history).deltas[lastOp.args.loser]
          = state.points[lastOp.args.loser] - Before.points[lastOp.args.loser]

\* No transition is pending: the pair and its description are absent.
NothingPending(st) ==
    \/ st.lastSettlementBefore = Null
    \/ st.lastSettlementAfter = Null
    \/ st.lastSettlementMeta = Null

\* Undo and redo are not both available, and neither is available exactly
\* when nothing is pending.
AvailabilityExclusive(st) ==
    /\ ~(canUndo(st) /\ canRedo(st))
    /\ (~canUndo(st) /\ ~canRedo(st)) <=> NothingPending(st)

\* C32: canUndo and canRedo are never both true, both are false exactly
\* when no transition is pending, and right after any confirmed settlement
\* canUndo is true and canRedo is false.
C32_AvailabilityExclusive ==
    [][ /\ AvailabilityExclusive(state)
        /\ AvailabilityExclusive(state')
        /\ Settled => (canUndo(state') /\ ~canRedo(state'))
    ]_vars

\* A settlement confirmed on top of an earlier one: undo is available, redo
\* is not.
C32_Witness ==
    /\ After("draw")
    /\ Len(state.history) = 2
    /\ canUndo(state)
    /\ ~canRedo(state)
    /\ rendered.canUndo
    /\ ~rendered.canRedo

\* C33: undo and redo restore the captured snapshots whatever happened
\* since the settlement: after a round-edit or a name-edit, an available
\* undo sets honba, kyokuIndex, dealerIndex and names (and points, pool and
\* history) to their values before the settlement, and an available redo
\* sets them to their values after it.
C33_EditsOverwritten ==
    [][ /\ (lastOp.kind \in {"editRound", "editNames"}
            /\ lastOp'.kind = "undo" /\ canUndo(state)) =>
              /\ state'.honba = state.lastSettlementBefore.honba
              /\ state'.kyokuIndex = state.lastSettlementBefore.kyokuIndex
              /\ state'.dealerIndex = state.lastSettlementBefore.dealerIndex
              /\ state'.names = state.lastSettlementBefore.names
              /\ Core(state') = state.lastSettlementBefore
              /\ state'.isInUndo
              /\ PairKept
        /\ (lastOp.kind \in {"editRound", "editNames"}
            /\ lastOp'.kind = "redo" /\ canRedo(state)) =>
              /\ state'.honba = state.lastSettlementAfter.honba
              /\ state'.kyokuIndex = state.lastSettlementAfter.kyokuIndex
              /\ state'.dealerIndex = state.lastSettlementAfter.dealerIndex
              /\ state'.names = state.lastSettlementAfter.names
              /\ Core(state') = state.lastSettlementAfter
              /\ ~state'.isInUndo
              /\ PairKept
    ]_vars

\* A redo (here requested only after an edit made while undone): the match
\* is as the settlement left it, not as the edit did.
C33_Witness ==
    /\ lastOp.kind = "redo"
    /\ ~state.isInUndo
    /\ Len(state.history) = 1
    /\ Core(state) = state.lastSettlementAfter
    /\ state.names = createDefaultNames
    /\ state.honba = Num(1)

\* C34: a name-edit changes only names: points, pool, honba, kyokuIndex,
\* dealerIndex, history, the pending pair (whose snapshots keep the old
\* names) and the undone flag are unchanged.
C34_NameEditFrame ==
    [][lastOp'.kind = "editNames" =>
        /\ state'.points = state.points
        /\ state'.kyotaku = state.kyotaku
        /\ state'.honba = state.honba
        /\ state'.kyokuIndex = state.kyokuIndex
        /\ state'.dealerIndex = state.dealerIndex
        /\ state'.history = state.history
        /\ state'.isInUndo = state.isInUndo
        /\ PairKept
        /\ state' = [state EXCEPT !.names = state'.names]
    ]_vars

\* New names saved while a draw with a stick in the pool is undone: the
\* pair still holds the names of the settlement.
C34_Witness ==
    /\ lastOp.kind = "editNames"
    /\ state.isInUndo
    /\ canRedo(state)
    /\ state.names # createDefaultNames
    /\ state.lastSettlementBefore.names = createDefaultNames
    /\ state.lastSettlementAfter.names = createDefaultNames
    /\ state.lastSettlementAfter.kyotaku >= 1
    /\ state.kyotaku = 0

\* C35: dealer and round move in lockstep: in every state reached from the
\* initial state by settlements, undo, redo, name-edit and reset (no
\* round-edit), dealerIndex = kyokuIndex mod 4.
C35_DealerFollowsRound ==
    Num(state.dealerIndex) = state.kyokuIndex % Num(4)

\* Eight hands that moved the dealer on, self-draws, discard-wins and draws
\* among them, then undo: South 4 with seat 3 as dealer, redo pending to
\* East 1 with seat 0.
C35_Witness ==
    /\ lastOp.kind = "undo"
    /\ state.isInUndo
    /\ state.kyokuIndex = Num(7)
    /\ state.dealerIndex = 3
    /\ state.lastSettlementAfter.kyokuIndex = Num(0)
    /\ state.lastSettlementAfter.dealerIndex = 0
    /\ \A kind \in {"tsumo", "ron", "draw"} :
          \E k \in 1..Len(state.history) : state.history[k].type = kind

\* C36: every seat's points are a multiple of 100 in every state reached,
\* for all positive integer han and fu: each hand payment is rounded up to
\* a hundred and every other transfer (honba, riichi stick, pool, tenpai
\* payment) is a multiple of 100.
C36_PointsInHundreds ==
    /\ \A seat \in SeatIndex : state.points[seat] % 100 = 0
    /\ Len(state.history) >= 1 =>
          \A seat \in SeatIndex : Head(state.history).deltas[seat] % 100 = 0

\* The stored item is a document that loads as the current state, pending
\* pair and undone flag included.
StoredIsState ==
    /\ stored.raw = "json"
    /\ loadGate(stored.parsed)
    /\ baseState(stored.parsed) = state

\* C37: startup with a valid persisted document D: although the persist
\* effect also runs at startup with the initial state, the match state
\* eventually equals D and the stored document eventually equals D again
\* (the defaults do not replace it for good), and after every later change
\* of the state the stored document eventually equals the current state,
\* pending pair included.
C37_StoredFollowsState ==
    /\ \A d \in StartupStates :
          (lastOp.kind = "mount" /\ stored = Stored("json", ToJson(d)))
              ~> (state = d /\ stored = Stored("json", ToJson(d)))
    /\ []<>StoredIsState

\* The persisted match (a draw, undone) is back after startup: the state
\* and the stored document both hold it, redo still pending.
C37_Witness ==
    /\ lastOp.kind = "render"
    /\ state = PersistedState
    /\ canRedo(state)
    /\ state # createInitialGameState
    /\ stored = Stored("json", ToJson(PersistedState))
    /\ StoredIsState

\* C38: computePlayerRanks gives each seat the rank 1 + (number of seats
\* with strictly more points): seats with equal points share a rank and the
\* rank numbers after a tie are skipped.
C38_RankCountsHigherStacks ==
    lastOp.kind = "computePlayerRanks" =>
        \A seat \in SeatIndex :
            lastOp.args.result[seat]
                = 1 + Cardinality({other \in SeatIndex :
                        lastOp.args.points[other] > lastOp.args.points[seat]})

\* Seats 1 and 3 tied for first, seat 0 third, seat 2 (below zero) fourth.
C38_Witness ==
    /\ lastOp.kind = "computePlayerRanks"
    /\ lastOp.args.points[1] = lastOp.args.points[3]
    /\ lastOp.args.points[1] > lastOp.args.points[0]
    /\ lastOp.args.points[0] > lastOp.args.points[2]
    /\ lastOp.args.points[2] < 0
    /\ lastOp.args.result[1] = 1
    /\ lastOp.args.result[3] = 1
    /\ lastOp.args.result[0] = 3
    /\ lastOp.args.result[2] = 4

=============================================================================
